---- MODULE Spec2Model ----
(***************************************************************************)
(* Model of the NMI payment integration service (package api):             *)
(* the request validator, the idempotency guard around ProcessPayment,     *)
(* the gateway call (sendRequest) and the response parser.                 *)
(*                                                                         *)
(* Go strings on which the code runs regular expressions, conversions or   *)
(* length tests are modelled as sequences of one-character strings;        *)
(* strings that are only compared for equality (idempotency keys) are      *)
(* TLA+ strings.                                                           *)
(***************************************************************************)
EXTENDS Naturals, Integers, Sequences, FiniteSets, TLC

(***************************************************************************)
(* Bounds of the model.                                                    *)
(***************************************************************************)
\* number of invocations (calls of ProcessPayment / ProcessTokenization) in a behaviour
MaxCalls == 2
\* longest amount string enumerated for the validator
MaxAmountLen == 4
\* number of months the wall clock may advance during a behaviour
MaxMonths == 1
\* longest expiry string enumerated for validateExpirationDate
MaxExpLen == 4
\* largest number of key=value segments joined into a raw response for the parser
MaxPairs == 2

(***************************************************************************)
(* Characters and the character classes of the regular expressions.        *)
(***************************************************************************)
Digits == {"0", "1", "2", "3", "4", "5", "6", "7", "8", "9"}

LowerLetters == {"a", "b", "c", "d", "e", "f", "g", "h", "i", "j", "k", "l", "m",
                 "n", "o", "p", "q", "r", "s", "t", "u", "v", "w", "x", "y", "z"}

UpperLetters == {"A", "B", "C", "D", "E", "F", "G", "H", "I", "J", "K", "L", "M",
                 "N", "O", "P", "Q", "R", "S", "T", "U", "V", "W", "X", "Y", "Z"}

Letters == LowerLetters \cup UpperLetters

IsDigit(ch) == ch \in Digits

AllDigits(s) == \A i \in 1..Len(s) : IsDigit(s[i])

DigitVal(ch) ==
    CASE ch = "0" -> 0 [] ch = "1" -> 1 [] ch = "2" -> 2 [] ch = "3" -> 3
      [] ch = "4" -> 4 [] ch = "5" -> 5 [] ch = "6" -> 6 [] ch = "7" -> 7
      [] ch = "8" -> 8 [] ch = "9" -> 9

\* strconv.Atoi / the integer part of strconv.ParseFloat on a string of digits
RECURSIVE DigitsValue(_)
DigitsValue(s) ==
    IF Len(s) = 0 THEN 0
    ELSE 10 * DigitsValue(SubSeq(s, 1, Len(s) - 1)) + DigitVal(s[Len(s)])

\* strings.ToLower, character by character
LowerChar(ch) ==
    CASE ch = "A" -> "a" [] ch = "B" -> "b" [] ch = "C" -> "c" [] ch = "D" -> "d"
      [] ch = "E" -> "e" [] ch = "F" -> "f" [] ch = "G" -> "g" [] ch = "H" -> "h"
      [] ch = "I" -> "i" [] ch = "J" -> "j" [] ch = "K" -> "k" [] ch = "L" -> "l"
      [] ch = "M" -> "m" [] ch = "N" -> "n" [] ch = "O" -> "o" [] ch = "P" -> "p"
      [] ch = "Q" -> "q" [] ch = "R" -> "r" [] ch = "S" -> "s" [] ch = "T" -> "t"
      [] ch = "U" -> "u" [] ch = "V" -> "v" [] ch = "W" -> "w" [] ch = "X" -> "x"
      [] ch = "Y" -> "y" [] ch = "Z" -> "z" [] OTHER -> ch

ToLower(s) == [i \in 1..Len(s) |-> LowerChar(s[i])]

\* the subsequence of s made of its characters that satisfy Keep
RECURSIVE FilterChars(_, _)
FilterChars(s, keep) ==
    IF Len(s) = 0 THEN << >>
    ELSE IF s[1] \in keep THEN << s[1] >> \o FilterChars(Tail(s), keep)
         ELSE FilterChars(Tail(s), keep)

\* the subsequence of s without the characters in drop
RECURSIVE DropChars(_, _)
DropChars(s, drop) ==
    IF Len(s) = 0 THEN << >>
    ELSE IF s[1] \in drop THEN DropChars(Tail(s), drop)
         ELSE << s[1] >> \o DropChars(Tail(s), drop)

\* position of the first occurrence of character ch in s, 0 when absent
IndexChar(s, ch) ==
    IF \E i \in 1..Len(s) : s[i] = ch
    THEN CHOOSE i \in 1..Len(s) : s[i] = ch /\ \A j \in 1..(i - 1) : s[j] # ch
    ELSE 0

(***************************************************************************)
(* Errors (api/errors.go).  A Go error is nil, an *NMIError carrying a     *)
(* code, or an unclassified error made by fmt.Errorf.                      *)
(***************************************************************************)
ErrInvalidCard          == "invalid_card"
ErrInvalidAmount        == "invalid_amount"
ErrInvalidRequest       == "invalid_request"
ErrDuplicateTransaction == "duplicate_transaction"
ErrProcessingError      == "processing_error"
ErrPartialResponse      == "partial_response"
ErrInvalidRefund        == "invalid_refund"
ErrNetworkError         == "network_error"
ErrAuthenticationFailed == "authentication_failed"
ErrInvalidAction        == "invalid_action"
ErrSystemError          == "system_error"

ErrorCodes == {ErrInvalidCard, ErrInvalidAmount, ErrInvalidRequest,
               ErrDuplicateTransaction, ErrProcessingError, ErrPartialResponse,
               ErrInvalidRefund, ErrNetworkError, ErrAuthenticationFailed,
               ErrInvalidAction, ErrSystemError}

\* an error message: one of the fixed messages of the code (lit), or a text
\* received from the gateway (text, a character sequence)
Lit(m) == [lit |-> m, text |-> << >>]

Text(t) == [lit |-> "", text |-> t]

Nil == [kind |-> "nil", Code |-> "", Message |-> Lit(""), Details |-> << >>, Raw |-> << >>]

NewNMIError(code, message, rawResponse) ==
    [kind |-> "NMIError", Code |-> code, Message |-> message, Details |-> << >>,
     Raw |-> rawResponse]

\* fmt.Errorf: an error value that is not an *NMIError and has no code
Errorf(message) ==
    [kind |-> "errorString", Code |-> "", Message |-> message, Details |-> << >>,
     Raw |-> << >>]

(***************************************************************************)
(* Validator (validator.go).                                               *)
(***************************************************************************)
\* regexp `^\d+\.\d{2}$`
amountRegex(s) ==
    /\ Len(s) >= 4
    /\ s[Len(s) - 2] = "."
    /\ AllDigits(SubSeq(s, 1, Len(s) - 3))
    /\ AllDigits(SubSeq(s, Len(s) - 1, Len(s)))

\* strconv.ParseFloat of a string that matched amountRegex, in cents
AmountCents(s) ==
    100 * DigitsValue(SubSeq(s, 1, Len(s) - 3)) + DigitsValue(SubSeq(s, Len(s) - 1, Len(s)))

validateAmount(amount) ==
    IF ~amountRegex(amount)
    THEN NewNMIError(ErrInvalidAmount, Lit("invalid amount format: must be in dollars.cents format (e.g., 10.99)"), << >>)
    ELSE IF AmountCents(amount) <= 0
         THEN NewNMIError(ErrInvalidAmount, Lit("amount must be greater than zero"), << >>)
         ELSE Nil

\* the Luhn sum of the code's loop: i runs from the last digit to the first,
\* alternate is false for the last digit
RECURSIVE LuhnSum(_, _)
LuhnSum(number, alternate) ==
    IF Len(number) = 0 THEN 0
    ELSE LET n  == DigitVal(number[Len(number)])
             d  == IF alternate
                   THEN (IF 2 * n > 9 THEN ((2 * n) % 10) + 1 ELSE 2 * n)
                   ELSE n
         IN d + LuhnSum(SubSeq(number, 1, Len(number) - 1), ~alternate)

\* regexp `[\s-]` of validateCreditCard (the whitespace the inputs can hold is the space)
SpaceOrHyphen == {" ", "-"}

validateCreditCard(raw) ==
    LET number == DropChars(raw, SpaceOrHyphen) IN
    IF ~(Len(number) >= 13 /\ Len(number) <= 19 /\ AllDigits(number))
    THEN NewNMIError(ErrInvalidCard, Lit("invalid credit card number length"), << >>)
    ELSE IF LuhnSum(number, FALSE) % 10 # 0
         THEN NewNMIError(ErrInvalidCard, Lit("invalid credit card number (failed Luhn check)"), << >>)
         ELSE Nil

\* regexp `^(0[1-9]|1[0-2])\d{2}$`
expDateRegex(s) ==
    /\ Len(s) = 4
    /\ \/ (s[1] = "0" /\ s[2] \in (Digits \ {"0"}))
       \/ (s[1] = "1" /\ s[2] \in {"0", "1", "2"})
    /\ IsDigit(s[3])
    /\ IsDigit(s[4])

\* an expiry check that rejects the card expiring in the current month
validateExpirationDateStrict(expDate, t) ==
    IF ~expDateRegex(expDate)
    THEN NewNMIError(ErrInvalidCard, Lit("invalid expiration date format (must be MMYY)"), << >>)
    ELSE LET month        == DigitsValue(SubSeq(expDate, 1, 2))
             year         == DigitsValue(SubSeq(expDate, 3, 4))
             currentYear  == t.year % 100
             currentMonth == t.month
         IN IF year < currentYear \/ (year = currentYear /\ month <= currentMonth)
            THEN NewNMIError(ErrInvalidCard, Lit("card has expired"), << >>)
            ELSE Nil

\* t is the value of time.Now(): [year |-> full year, month |-> 1..12]
validateExpirationDate(expDate, t) ==
    IF ~expDateRegex(expDate)
    THEN NewNMIError(ErrInvalidCard, Lit("invalid expiration date format (must be MMYY)"), << >>)
    ELSE LET month        == DigitsValue(SubSeq(expDate, 1, 2))
             year         == DigitsValue(SubSeq(expDate, 3, 4))
             currentYear  == t.year % 100
             currentMonth == t.month
         IN IF year < currentYear \/ (year = currentYear /\ month < currentMonth)
            THEN NewNMIError(ErrInvalidCard, Lit("card has expired"), << >>)
            ELSE Nil

\* regexp `^\d{3,4}$`
validateCVV(cvv) ==
    IF ~(Len(cvv) \in {3, 4} /\ AllDigits(cvv))
    THEN NewNMIError(ErrInvalidCard, Lit("invalid CVV (must be 3 or 4 digits)"), << >>)
    ELSE Nil

validTypes == { << "s", "a", "l", "e" >>,
                << "a", "u", "t", "h" >>,
                << "c", "a", "p", "t", "u", "r", "e" >>,
                << "c", "r", "e", "d", "i", "t" >>,
                << "v", "a", "l", "i", "d", "a", "t", "e" >>,
                << "v", "o", "i", "d" >>,
                << "r", "e", "f", "u", "n", "d" >> }

validateTransactionType(txType) ==
    IF ToLower(txType) \notin validTypes
    THEN NewNMIError(ErrInvalidRequest, Lit("invalid transaction type"), << >>)
    ELSE Nil

\* regexp `^[a-zA-Z0-9._%+-]+@[a-zA-Z0-9.-]+\.[a-zA-Z]{2,}$`
EmailLocalChars  == Letters \cup Digits \cup {".", "_", "%", "+", "-"}
EmailDomainChars == Letters \cup Digits \cup {".", "-"}

emailRegex(s) ==
    \E at \in 1..Len(s) : \E dot \in 1..Len(s) :
        /\ s[at] = "@"
        /\ at > 1
        /\ \A i \in 1..(at - 1) : s[i] \in EmailLocalChars
        /\ dot > at + 1
        /\ s[dot] = "."
        /\ \A i \in (at + 1)..(dot - 1) : s[i] \in EmailDomainChars
        /\ Len(s) - dot >= 2
        /\ \A i \in (dot + 1)..Len(s) : s[i] \in Letters

\* a *BillingInfo; present = FALSE is the nil pointer
NoBilling == [present |-> FALSE, FirstName |-> "", LastName |-> "", Address1 |-> "",
              City |-> "", State |-> "", Zip |-> "", Email |-> << >>, Phone |-> << >>]

validateBillingInfo(billing) ==
    IF billing.FirstName = "" \/ billing.LastName = ""
    THEN NewNMIError(ErrInvalidRequest, Lit("first_name and last_name are required"), << >>)
    ELSE IF billing.Address1 = "" \/ billing.City = "" \/ billing.State = "" \/ billing.Zip = ""
    THEN NewNMIError(ErrInvalidRequest, Lit("complete address is required"), << >>)
    ELSE IF billing.Email # << >> /\ ~emailRegex(billing.Email)
    THEN NewNMIError(ErrInvalidRequest, Lit("invalid email format"), << >>)
    ELSE IF billing.Phone # << >> /\ Len(FilterChars(billing.Phone, Digits)) < 10
    THEN NewNMIError(ErrInvalidRequest, Lit("invalid phone number"), << >>)
    ELSE Nil

ValidatePaymentRequest(req, t) ==
    IF req.Amount = << >> THEN Errorf(Lit("amount is required"))
    ELSE IF validateAmount(req.Amount) # Nil THEN validateAmount(req.Amount)
    ELSE IF req.Type = << >> THEN Errorf(Lit("type is required"))
    ELSE IF validateTransactionType(req.Type) # Nil THEN validateTransactionType(req.Type)
    ELSE IF req.CustomerVaultID = << >>
            /\ (req.CreditCard = << >> \/ req.ExpDate = << >> \/ req.CVV = << >>)
    THEN Errorf(Lit("either customer_vault_id or credit_card, exp_date, and cvv are required"))
    ELSE IF req.CustomerVaultID = << >> /\ validateCreditCard(req.CreditCard) # Nil
    THEN validateCreditCard(req.CreditCard)
    ELSE IF req.CustomerVaultID = << >> /\ validateExpirationDate(req.ExpDate, t) # Nil
    THEN validateExpirationDate(req.ExpDate, t)
    ELSE IF req.CustomerVaultID = << >> /\ validateCVV(req.CVV) # Nil
    THEN validateCVV(req.CVV)
    ELSE IF req.CustomerVaultID # << >> /\ Len(req.CustomerVaultID) < 8
    THEN Errorf(Lit("customer_vault_id must be at least 8 characters"))
    ELSE IF req.Billing.present /\ validateBillingInfo(req.Billing) # Nil
    THEN validateBillingInfo(req.Billing)
    ELSE Nil

\* strconv.ParseFloat(s, 64) with its error dropped, in cents, for the
\* amounts the modelled lookups return: digits with at most two decimals;
\* any other text is a syntax error, for which ParseFloat returns 0
ParseFloatCents(s) ==
    LET dot  == IndexChar(s, ".")
        int  == IF dot = 0 THEN s ELSE SubSeq(s, 1, dot - 1)
        frac == IF dot = 0 THEN << >> ELSE SubSeq(s, dot + 1, Len(s))
    IN IF AllDigits(int) /\ AllDigits(frac) /\ Len(int) + Len(frac) > 0 /\ Len(frac) <= 2
       THEN 100 * DigitsValue(int)
              + (IF Len(frac) = 1 THEN 10 * DigitsValue(frac) ELSE DigitsValue(frac))
       ELSE 0

\* a refund validation that also rejects the refund of the whole amount
ValidateRefundRequestStrict(req, originalAmount) ==
    IF req.TransactionID = ""
    THEN NewNMIError(ErrInvalidRequest, Lit("transaction_id is required"), << >>)
    ELSE IF req.Amount = << >> THEN Nil
    ELSE IF ~amountRegex(req.Amount)
    THEN NewNMIError(ErrInvalidAmount, Lit("invalid amount format: must be in dollars.cents format (e.g., 10.99)"), << >>)
    ELSE IF AmountCents(req.Amount) <= 0
    THEN NewNMIError(ErrInvalidRefund, Lit("refund amount must be greater than 0"), << >>)
    ELSE IF originalAmount # << >> /\ AmountCents(req.Amount) >= ParseFloatCents(originalAmount)
    THEN NewNMIError(ErrInvalidRefund, Lit("refund amount cannot exceed original transaction amount"), << >>)
    ELSE Nil

\* req is a RefundRequest; originalAmount is the amount of the lookup
ValidateRefundRequest(req, originalAmount) ==
    IF req.TransactionID = ""
    THEN NewNMIError(ErrInvalidRequest, Lit("transaction_id is required"), << >>)
    ELSE IF req.Amount = << >> THEN Nil
    ELSE IF ~amountRegex(req.Amount)
    THEN NewNMIError(ErrInvalidAmount, Lit("invalid amount format: must be in dollars.cents format (e.g., 10.99)"), << >>)
    ELSE IF AmountCents(req.Amount) <= 0
    THEN NewNMIError(ErrInvalidRefund, Lit("refund amount must be greater than 0"), << >>)
    ELSE IF originalAmount # << >> /\ AmountCents(req.Amount) > ParseFloatCents(originalAmount)
    THEN NewNMIError(ErrInvalidRefund, Lit("refund amount cannot exceed original transaction amount"), << >>)
    ELSE Nil

(***************************************************************************)
(* Response parser (response.go, errors.go).                               *)
(***************************************************************************)
\* strings.Index: position of the first occurrence of sub in s, 0 when absent
IndexSub(s, sub) ==
    LET starts == {i \in 1..(Len(s) - Len(sub) + 1) : SubSeq(s, i, i + Len(sub) - 1) = sub}
    IN IF starts = {} THEN 0 ELSE CHOOSE i \in starts : \A j \in starts : i <= j

HexDigits == Digits \cup {"a", "b", "c", "d", "e", "f", "A", "B", "C", "D", "E", "F"}

\* the byte written %h1h2, for the bytes the modelled responses can hold
HexByte(h1, h2) ==
    LET h == << LowerChar(h1), LowerChar(h2) >> IN
    CASE h = << "2", "0" >> -> " "
      [] h = << "2", "5" >> -> "%"
      [] h = << "2", "6" >> -> "&"
      [] h = << "3", "1" >> -> "1"
      [] h = << "3", "2" >> -> "2"
      [] h = << "3", "d" >> -> "="
      [] OTHER -> "?"

\* url.QueryUnescape, first pass: every % is followed by two hex digits
RECURSIVE EscapesValid(_)
EscapesValid(s) ==
    IF Len(s) = 0 THEN TRUE
    ELSE IF s[1] = "%"
         THEN /\ Len(s) >= 3
              /\ s[2] \in HexDigits
              /\ s[3] \in HexDigits
              /\ EscapesValid(SubSeq(s, 4, Len(s)))
         ELSE EscapesValid(Tail(s))

\* url.QueryUnescape, second pass, on a string whose escapes are valid
RECURSIVE Unescape(_)
Unescape(s) ==
    IF Len(s) = 0 THEN << >>
    ELSE IF s[1] = "%" THEN << HexByte(s[2], s[3]) >> \o Unescape(SubSeq(s, 4, Len(s)))
    ELSE IF s[1] = "+" THEN << " " >> \o Unescape(Tail(s))
    ELSE << s[1] >> \o Unescape(Tail(s))

\* url.ParseQuery: the pairs in order of appearance, and whether an error was met.
\* A pair whose key or value cannot be unescaped, or that holds a semicolon,
\* is skipped and sets the error; an empty segment is skipped.
RECURSIVE ParseQuery(_)
ParseQuery(query) ==
    IF Len(query) = 0 THEN [pairs |-> << >>, err |-> FALSE]
    ELSE LET amp   == IndexChar(query, "&")
             seg   == IF amp = 0 THEN query ELSE SubSeq(query, 1, amp - 1)
             rest  == IF amp = 0 THEN << >> ELSE SubSeq(query, amp + 1, Len(query))
             tail  == ParseQuery(rest)
             eq    == IndexChar(seg, "=")
             key   == IF eq = 0 THEN seg ELSE SubSeq(seg, 1, eq - 1)
             value == IF eq = 0 THEN << >> ELSE SubSeq(seg, eq + 1, Len(seg))
         IN IF IndexChar(seg, ";") # 0 THEN [tail EXCEPT !.err = TRUE]
            ELSE IF Len(seg) = 0 THEN tail
            ELSE IF ~EscapesValid(key) \/ ~EscapesValid(value) THEN [tail EXCEPT !.err = TRUE]
            ELSE [tail EXCEPT !.pairs = << << Unescape(key), Unescape(value) >> >> \o @]

\* url.Values.Get: the first value associated with key, "" when there is none
RECURSIVE Get(_, _)
Get(pairs, key) ==
    IF Len(pairs) = 0 THEN << >>
    ELSE IF pairs[1][1] = key THEN pairs[1][2] ELSE Get(Tail(pairs), key)

K_response          == << "r", "e", "s", "p", "o", "n", "s", "e" >>
K_responsetext      == << "r", "e", "s", "p", "o", "n", "s", "e", "t", "e", "x", "t" >>
K_authcode          == << "a", "u", "t", "h", "c", "o", "d", "e" >>
K_transactionid     == << "t", "r", "a", "n", "s", "a", "c", "t", "i", "o", "n", "i", "d" >>
K_avsresponse       == << "a", "v", "s", "r", "e", "s", "p", "o", "n", "s", "e" >>
K_cvvresponse       == << "c", "v", "v", "r", "e", "s", "p", "o", "n", "s", "e" >>
K_orderid           == << "o", "r", "d", "e", "r", "i", "d" >>
K_type              == << "t", "y", "p", "e" >>
K_response_code     == << "r", "e", "s", "p", "o", "n", "s", "e", "_", "c", "o", "d", "e" >>
K_amount            == << "a", "m", "o", "u", "n", "t" >>
K_customer_vault_id == << "c", "u", "s", "t", "o", "m", "e", "r", "_", "v", "a", "u", "l", "t", "_", "i", "d" >>
REFID               == << "R", "E", "F", "I", "D", ":" >>

\* a table without the entry of 601
codeMapWithout601(responseCode) ==
    CASE responseCode = << "2", "0", "0" >> -> ErrInvalidCard
      [] responseCode = << "2", "0", "1" >> -> ErrInvalidAmount
      [] responseCode = << "3", "0", "0" >> -> ErrAuthenticationFailed
      [] responseCode = << "4", "0", "0" >> -> ErrProcessingError
      [] responseCode = << "5", "0", "0" >> -> ErrSystemError
      [] responseCode = << "6", "0", "0" >> -> ErrInvalidAction
      [] responseCode = << "7", "0", "0" >> -> ErrNetworkError
      [] OTHER -> ErrProcessingError

\* the table codeMap of ParseNMIErrorResponse
codeMap(responseCode) ==
    CASE responseCode = << "2", "0", "0" >> -> ErrInvalidCard
      [] responseCode = << "2", "0", "1" >> -> ErrInvalidAmount
      [] responseCode = << "3", "0", "0" >> -> ErrAuthenticationFailed
      [] responseCode = << "4", "0", "0" >> -> ErrProcessingError
      [] responseCode = << "5", "0", "0" >> -> ErrSystemError
      [] responseCode = << "6", "0", "0" >> -> ErrInvalidAction
      [] responseCode = << "6", "0", "1" >> -> ErrDuplicateTransaction
      [] responseCode = << "7", "0", "0" >> -> ErrNetworkError
      [] OTHER -> ErrProcessingError

ParseNMIErrorResponse(responseText, responseCode, rawResponse) ==
    [kind    |-> "NMIError",
     Code    |-> codeMap(responseCode),
     Message |-> Text(responseText),
     Details |-> IF IndexSub(responseText, REFID) # 0
                 THEN SubSeq(responseText, IndexSub(responseText, REFID), Len(responseText))
                 ELSE << >>,
     Raw     |-> rawResponse]

\* a nil *NMIResponse
NilResponse == [isNil |-> TRUE, Response |-> << >>, ResponseText |-> << >>,
                AuthCode |-> << >>, TransactionID |-> << >>, AVSResponse |-> << >>,
                CVVResponse |-> << >>, OrderID |-> << >>, Type |-> << >>,
                ResponseCode |-> << >>, Amount |-> << >>, CustomerVaultID |-> << >>]

\* the NMIResponse built from the decoded pairs
NMIResponseOf(pairs) ==
    [isNil           |-> FALSE,
     Response        |-> Get(pairs, K_response),
     ResponseText    |-> Get(pairs, K_responsetext),
     AuthCode        |-> Get(pairs, K_authcode),
     TransactionID   |-> Get(pairs, K_transactionid),
     AVSResponse     |-> Get(pairs, K_avsresponse),
     CVVResponse     |-> Get(pairs, K_cvvresponse),
     OrderID         |-> Get(pairs, K_orderid),
     Type            |-> Get(pairs, K_type),
     ResponseCode    |-> Get(pairs, K_response_code),
     Amount          |-> Get(pairs, K_amount),
     CustomerVaultID |-> Get(pairs, K_customer_vault_id)]

\* what ParseNMIResponse returns for the NMIResponse it built
ClassifyResponse(response, rawResponse) ==
    IF response.Response # << "1" >>
    THEN [response |-> response,
          err |-> ParseNMIErrorResponse(response.ResponseText, response.ResponseCode,
                                        rawResponse)]
    ELSE [response |-> response, err |-> Nil]

\* what ParseNMIResponse returns when url.ParseQuery returned q
ParseDecoded(q, rawResponse) ==
    IF q.err
    THEN [response |-> NilResponse, err |-> Errorf(Lit("failed to parse NMI response: %w"))]
    ELSE ClassifyResponse(NMIResponseOf(q.pairs), rawResponse)

\* ParseNMIResponse returns the pair (response, err)
ParseNMIResponse(rawResponse) == ParseDecoded(ParseQuery(rawResponse), rawResponse)

\* an extraction that returns what was decoded before the error
ExtractValueLoose(rawResponse, key) ==
    LET q == ParseQuery(rawResponse)
    IN Get(q.pairs, key)

\* ExtractValue: a single field of a raw response, "" when it cannot be parsed
ExtractValue(rawResponse, key) ==
    LET q == ParseQuery(rawResponse)
    IN IF q.err THEN << >> ELSE Get(q.pairs, key)

(***************************************************************************)
(* generateUniqueVaultID: eight random bytes, joined big-endian into an    *)
(* int64 and printed in base 10 by strconv.FormatInt.  The arithmetic is   *)
(* done on digit sequences (least significant digit first), so that the    *)
(* 64-bit value is exact.                                                  *)
(***************************************************************************)
\* digits * m + carry
RECURSIVE MulAdd(_, _, _)
MulAdd(digits, m, carry) ==
    IF Len(digits) = 0
    THEN (IF carry = 0 THEN << >> ELSE << carry % 10 >> \o MulAdd(<< >>, m, carry \div 10))
    ELSE LET v == digits[1] * m + carry
         IN << v % 10 >> \o MulAdd(Tail(digits), m, v \div 10)

\* the unsigned value of a big-endian byte sequence
RECURSIVE BytesValue(_)
BytesValue(b) ==
    IF Len(b) = 0 THEN << >>
    ELSE MulAdd(BytesValue(SubSeq(b, 1, Len(b) - 1)), 256, b[Len(b)])

DigitChar(d) ==
    CASE d = 0 -> "0" [] d = 1 -> "1" [] d = 2 -> "2" [] d = 3 -> "3" [] d = 4 -> "4"
      [] d = 5 -> "5" [] d = 6 -> "6" [] d = 7 -> "7" [] d = 8 -> "8" [] d = 9 -> "9"

\* the decimal text of a digit sequence, most significant digit first
DecimalText(digits) ==
    IF Len(digits) = 0 THEN << "0" >>
    ELSE [i \in 1..Len(digits) |-> DigitChar(digits[Len(digits) + 1 - i])]

\* int64(b[0])<<56 | ... | int64(b[7]) is negative when the top bit of b[0] is
\* set; its magnitude is then the two's complement of the eight bytes
generateUniqueVaultID(b) ==
    IF b[1] < 128
    THEN DecimalText(BytesValue(b))
    ELSE << "-" >> \o DecimalText(MulAdd(BytesValue([i \in 1..8 |-> 255 - b[i]]), 1, 1))

(***************************************************************************)
(* Inputs of the orchestrator model.                                       *)
(***************************************************************************)
\* idempotency keys a caller may send; "" is the absent key
Keys == {"", "k1", "k2"}

\* time.Now() at the start of a behaviour
StartTime == [year |-> 2026, month |-> 11]

\* the month after t
NextMonth(t) ==
    IF t.month = 12 THEN [year |-> t.year + 1, month |-> 1]
    ELSE [year |-> t.year, month |-> t.month + 1]

\* a PaymentRequest (the fields the modelled operations read)
Request(amount, type, card, exp, cvv, vault, key, billing) ==
    [Amount |-> amount, Type |-> type, CreditCard |-> card, ExpDate |-> exp, CVV |-> cvv,
     CustomerVaultID |-> vault, IdempotencyKey |-> key, Billing |-> billing]

TestCard == << "4", "1", "1", "1", "1", "1", "1", "1", "1", "1", "1", "1", "1", "1", "1", "1" >>

\* the valid sale of the tests: a Luhn-valid card, a future expiry, a CVV
ReqCard(key) ==
    Request(<< "1", "0", ".", "9", "9" >>, << "s", "a", "l", "e" >>, TestCard, << "1", "2", "3", "0" >>, << "1", "2", "3" >>, << >>, key, NoBilling)

\* a sale with no amount
ReqNoAmount(key) ==
    Request(<< >>, << "s", "a", "l", "e" >>, TestCard, << "1", "2", "3", "0" >>, << "1", "2", "3" >>, << >>, key, NoBilling)

\* a sale whose card number fails the Luhn check
ReqBadCard(key) ==
    Request(<< "1", "0", ".", "9", "9" >>, << "s", "a", "l", "e" >>, << "4", "1", "1", "1", "1", "1", "1", "1", "1", "1", "1", "1", "1", "1", "1", "2" >>, << "1", "2", "3", "0" >>, << "1", "2", "3" >>, << >>, key, NoBilling)

\* the tokenization request of the integration test: card fields only
ReqTokenize ==
    Request(<< >>, << >>, TestCard, << "1", "2", "3", "0" >>, << "1", "2", "3" >>, << >>, "", NoBilling)

PaymentRequests == {ReqCard(k) : k \in Keys} \cup {ReqNoAmount("k1"), ReqBadCard("k2")}

TokenizeRequests == {ReqCard(""), ReqTokenize}

Ops == {"ProcessPayment", "ProcessTokenization"}

RequestsOf(op) == IF op = "ProcessPayment" THEN PaymentRequests ELSE TokenizeRequests

\* bodies the gateway may answer with
RawApproved    == << "r", "e", "s", "p", "o", "n", "s", "e", "=", "1", "&", "r", "e", "s", "p", "o", "n", "s", "e", "t", "e", "x", "t", "=", "S", "U", "C", "C", "E", "S", "S", "&", "t", "r", "a", "n", "s", "a", "c", "t", "i", "o", "n", "i", "d", "=", "1", "2", "3", "&", "r", "e", "s", "p", "o", "n", "s", "e", "_", "c", "o", "d", "e", "=", "1", "0", "0" >>
RawDeclined    == << "r", "e", "s", "p", "o", "n", "s", "e", "=", "2", "&", "r", "e", "s", "p", "o", "n", "s", "e", "t", "e", "x", "t", "=", "D", "E", "C", "L", "I", "N", "E", "&", "r", "e", "s", "p", "o", "n", "s", "e", "_", "c", "o", "d", "e", "=", "3", "0", "0" >>
RawUndecodable == << "r", "e", "s", "p", "o", "n", "s", "e", "=", "1", "&", "r", "e", "s", "p", "o", "n", "s", "e", "t", "e", "x", "t", "=", "%", "z", "z" >>

RawResponses == {RawApproved, RawDeclined, RawUndecodable}

\* values rand.Read may fill the eight bytes with
RandomBytes == { << 0, 0, 0, 0, 0, 0, 1, 0 >>, << 200, 1, 2, 3, 4, 5, 6, 7 >> }

Calls == 1..MaxCalls

(***************************************************************************)
(* State.                                                                  *)
(***************************************************************************)
VARIABLES
    now,        \* the wall clock read by time.Now()
    processed,  \* transactionCache.processed: the set of keys of the map
    tcReaders,  \* the calls holding transactionCache.RLock
    tcWriter,   \* the call holding transactionCache.Lock, 0 when free
    gateway,    \* the requests the gateway has been sent
    calls,      \* per invocation: operation, request, position, outcome and history
    vin,        \* validator check: the request under validation
    vout,       \* validator check: the error ValidatePaymentRequest returned
    pin,        \* parser check: the raw response and the key given to the parser
    pout,       \* parser check: what ParseNMIResponse and ExtractValue returned
    refund,     \* the invocation of ProcessRefund: request, position and outcome
    svc,        \* the invocation of an operation that takes an identifier
    plans,      \* PlanStore.Data: the stored plan of each plan id, NoPlan when absent
    psReaders,  \* the handlers holding PlanStore.RLock
    psWriter,   \* the handler holding PlanStore.Lock, 0 when free
    handlers,   \* per plan-store handler: operation, argument, position and outcome
    mw,         \* TimeoutMiddleware: per request, the middleware and its goroutine
    hin,        \* service surface check: the handler and what its operation returned
    hout        \* service surface check: the status the handler answered

vars == << now, processed, tcReaders, tcWriter, gateway, calls, vin, vout, pin, pout, refund,
           svc, plans, psReaders, psWriter, handlers, mw, hin, hout >>

\* the variables of the service: the operations that take an identifier, the
\* plan store and its handlers, the timeout middleware, the service surface
serviceVars == << svc, plans, psReaders, psWriter, handlers, mw, hin, hout >>

\* the variables of the stand-alone checks other than the validator's
otherVars == << pin, pout, refund, serviceVars >>

\* the value returned with a nil error, or nil
NilReturn == [isNil |-> TRUE, RawResponse |-> << >>, Response |-> << >>,
              ResponseText |-> << >>, TransactionID |-> << >>, CustomerVaultID |-> << >>,
              Masked |-> << >>, CardType |-> << >>, Success |-> FALSE]

\* an invocation that has not started.  ctxDone tells whether sendRequest was
\* cut short by the context or the timeout; sent, validated, verr, guardHit
\* and wrote record what the invocation did (verr is what
\* ValidatePaymentRequest returned to it); doneAtStart is the set of the
\* ProcessPayment calls with the same non-empty key that had returned when it
\* started.
IdleCall == [op |-> "none", pc |-> "idle", req |-> ReqCard(""), ctxDone |-> FALSE,
             vault |-> << >>,
             err |-> Nil, ret |-> NilReturn, sent |-> 0, validated |-> FALSE,
             verr |-> Nil, guardHit |-> FALSE, wrote |-> FALSE, doneAtStart |-> {}]

NotValidated == [kind |-> "none", Code |-> "", Message |-> Lit(""), Details |-> << >>,
                 Raw |-> << >>]

\* no raw response has been given to the parser
NoParserInput == [raw |-> << >>, key |-> << >>]

NotParsed == [parsed |-> FALSE, response |-> NilResponse, err |-> Nil, value |-> << >>]

\* a nil *RefundResponse
NilRefundResponse == [isNil |-> TRUE, RawResponse |-> << >>, Response |-> << >>,
                      TransactionID |-> << >>, Amount |-> << >>]

\* a ProcessRefund that has not been invoked.  original is the Amount of the
\* LookupResponse; lookupOk, validated and verr record that LookupTransaction
\* returned without error and what ValidateRefundRequest returned; sent counts
\* the requests dispatched; ctxDone as for the other operations
IdleRefund == [pc |-> "idle", req |-> [TransactionID |-> "", Amount |-> << >>],
               original |-> << >>, lookupOk |-> FALSE, validated |-> FALSE,
               verr |-> Nil, err |-> Nil, ret |-> NilRefundResponse, sent |-> 0,
               ctxDone |-> FALSE]

\* a plan of the plan store
Plan(id, name, amount) == [ID |-> id, Name |-> name, Amount |-> amount]

\* no plan is stored under the id
NoPlan == Plan("", "", << >>)

PlanIds == {"p1"}

\* a nil *VoidResponse, *LookupResponse or *RecurringResponse
NilSimpleReturn == [isNil |-> TRUE, Response |-> << >>, TransactionID |-> << >>,
                    Amount |-> << >>]

\* an invocation of VoidTransaction, LookupTransaction, UpdateRecurringPayment
\* or CancelRecurringPayment that has not started.  id is the transaction id
\* or the subscription id, amount the Amount of the request of an update
IdleSimple == [op |-> "none", pc |-> "idle", id |-> "", amount |-> << >>, err |-> Nil,
               ret |-> NilSimpleReturn, sent |-> 0, ctxDone |-> FALSE]

\* a handler of the plan store, or a ProcessRecurringPayment, that has not
\* started.  plan is the plan of the request (its ID alone for a cancel and
\* for ProcessRecurringPayment); exists and found are what the handler read
\* from the store; status is the HTTP status answered, 0 before the answer;
\* err, retNil and sent are the outcome of ProcessRecurringPayment
IdleHandler == [op |-> "none", pc |-> "idle", plan |-> NoPlan, exists |-> FALSE,
                found |-> NoPlan, status |-> 0, err |-> Nil, retNil |-> TRUE, sent |-> 0]

Handlers == Calls

\* a request that has not reached TimeoutMiddleware.  mwPc is the position
\* of the middleware, goPc that of the goroutine it starts, ctxDone tells
\* that ctx.Done() is closed, status is the first status written to w
IdleTimeout == [mwPc |-> "idle", goPc |-> "idle", ctxDone |-> FALSE, status |-> 0]

Requests == Calls

\* no handler has been given an outcome
NoHandlerInput == [handler |-> "none", decoded |-> FALSE, err |-> Nil]

ServiceIdle ==
    /\ svc = IdleSimple
    /\ plans = [id \in PlanIds |-> NoPlan]
    /\ psReaders = {}
    /\ psWriter = 0
    /\ handlers = [h \in Handlers |-> IdleHandler]
    /\ mw = [r \in Requests |-> IdleTimeout]
    /\ hin = NoHandlerInput
    /\ hout = 0

ParserIdle ==
    /\ pin = NoParserInput
    /\ pout = NotParsed

RefundIdle == refund = IdleRefund

\* the stand-alone checks other than the validator's are not run
InitOther ==
    /\ ParserIdle
    /\ RefundIdle
    /\ ServiceIdle

InitOrchestrator ==
    /\ processed = {}
    /\ tcReaders = {}
    /\ tcWriter = 0
    /\ gateway = {}
    /\ calls = [c \in Calls |-> IdleCall]

Init ==
    /\ InitOrchestrator
    /\ now = StartTime
    /\ vin = ReqCard("")
    /\ vout = NotValidated
    /\ InitOther

\* the call returns err (and a nil result)
Fail(c, err) ==
    [calls EXCEPT ![c].pc = "done", ![c].err = err, ![c].ret = NilReturn]

(***************************************************************************)
(* Actions.                                                                *)
(***************************************************************************)
\* a validation whose error is dropped
ValidateIgnoresError(call) ==
    {[call EXCEPT !.validated = TRUE, !.pc = "send",
                  !.verr = ValidatePaymentRequest(call.req, now)]}

\* ProcessPayment and ProcessTokenization: ValidatePaymentRequest(req), then
\* the payload is built; ProcessTokenization draws its vault id.  The value
\* is the set of the states the call may be in afterwards
Validate(call) ==
    LET err == ValidatePaymentRequest(call.req, now)
    IN IF err # Nil
       THEN {[call EXCEPT !.validated = TRUE, !.verr = err,
                          !.pc = "done", !.err = err, !.ret = NilReturn]}
       ELSE IF call.op = "ProcessTokenization"
       THEN {[call EXCEPT !.validated = TRUE, !.pc = "send",
                          !.vault = generateUniqueVaultID(b)] : b \in RandomBytes}
       ELSE {[call EXCEPT !.validated = TRUE, !.pc = "send"]}

\* a caller invokes ProcessPayment or ProcessTokenization; invocations are
\* numbered in the order they start.  A ProcessPayment call with a key goes
\* to the guard; any other call validates its request at once
Start(c) ==
    /\ calls[c].pc = "idle"
    /\ \A d \in 1..(c - 1) : calls[d].pc # "idle"
    /\ \E op \in Ops : \E req \in RequestsOf(op) :
         LET guarded == op = "ProcessPayment" /\ req.IdempotencyKey # ""
             call == [IdleCall EXCEPT
                        !.op = op,
                        !.req = req,
                        !.pc = "guard",
                        !.doneAtStart =
                            {d \in Calls : /\ guarded
                                           /\ calls[d].pc = "done"
                                           /\ calls[d].op = "ProcessPayment"
                                           /\ calls[d].req.IdempotencyKey = req.IdempotencyKey}]
         IN \E next \in (IF guarded THEN {call} ELSE Validate(call)) :
              calls' = [calls EXCEPT ![c] = next]
    /\ UNCHANGED << now, processed, tcReaders, tcWriter, gateway, vin, vout, otherVars >>

\* ProcessPayment: transactionCache.RLock()
PayGuardEnter(c) ==
    /\ calls[c].pc = "guard"
    /\ tcWriter = 0
    /\ tcReaders' = tcReaders \cup {c}
    /\ calls' = [calls EXCEPT ![c].pc = "guard_cs"]
    /\ UNCHANGED << now, processed, tcWriter, gateway, vin, vout, otherVars >>

\* a lookup that never finds the key
hasProcessedMiss(key) == FALSE

\* whether ProcessPayment takes key for already processed
hasProcessed(key) == key \in processed

\* a guard that reports the duplicate but goes on to validate and submit
PayGuardCheckFallsThrough(c) ==
    /\ calls[c].pc = "guard_cs"
    /\ tcReaders' = tcReaders \ {c}
    /\ \E next \in Validate([calls[c] EXCEPT
                               !.guardHit = (calls[c].req.IdempotencyKey \in processed)]) :
         calls' = [calls EXCEPT ![c] = next]
    /\ UNCHANGED << now, processed, tcWriter, gateway, vin, vout, otherVars >>

\* ProcessPayment: the lookup of the key under the read lock, RUnlock(), and
\* the return of duplicate_transaction or the validation of the request
PayGuardCheck(c) ==
    /\ calls[c].pc = "guard_cs"
    /\ tcReaders' = tcReaders \ {c}
    /\ IF hasProcessed(calls[c].req.IdempotencyKey)
       THEN calls' = [Fail(c, NewNMIError(ErrDuplicateTransaction,
                                          Lit("duplicate transaction detected"), << >>))
                        EXCEPT ![c].guardHit = TRUE]
       ELSE \E next \in Validate(calls[c]) : calls' = [calls EXCEPT ![c] = next]
    /\ UNCHANGED << now, processed, tcWriter, gateway, vin, vout, otherVars >>

\* the form ProcessPayment posts
PaymentForm(req) ==
    [op |-> "ProcessPayment", amount |-> req.Amount, type |-> req.Type,
     customer_vault_id |-> req.CustomerVaultID,
     ccnumber |-> IF req.CustomerVaultID # << >> THEN << >> ELSE req.CreditCard,
     ccexp    |-> IF req.CustomerVaultID # << >> THEN << >> ELSE req.ExpDate,
     cvv      |-> IF req.CustomerVaultID # << >> THEN << >> ELSE req.CVV]

\* the form ProcessTokenization posts
TokenizeForm(req, vaultID) ==
    [op |-> "ProcessTokenization", amount |-> << "1", ".", "0", "0" >>, type |-> << "s", "a", "l", "e" >>,
     customer_vault_id |-> vaultID,
     ccnumber |-> req.CreditCard, ccexp |-> req.ExpDate, cvv |-> req.CVV]

\* sendRequest: client.Do starts.  ctx tells whether the context of the call
\* is done by then (cancelled by the caller, or past its deadline): client.Do
\* then fails before anything is written; otherwise the request goes out
SendDispatch(c) ==
    /\ calls[c].pc = "send"
    /\ \E ctx \in {"live", "done"} :
         IF ctx = "done"
         THEN /\ calls' = [Fail(c, NewNMIError(ErrNetworkError, Lit("network error: "), << >>))
                             EXCEPT ![c].ctxDone = TRUE]
              /\ gateway' = gateway
         ELSE /\ calls' = [calls EXCEPT ![c].pc = "do", ![c].sent = @ + 1]
              /\ gateway' = gateway \cup
                   {[call |-> c, seq |-> calls[c].sent + 1,
                     form |-> IF calls[c].op = "ProcessPayment"
                              THEN PaymentForm(calls[c].req)
                              ELSE TokenizeForm(calls[c].req, calls[c].vault)]}
    /\ UNCHANGED << now, processed, tcReaders, tcWriter, vin, vout, otherVars >>

\* a sendRequest that tries again after an error of the transport
DoReturnRetries(c) ==
    /\ calls[c].pc = "do"
    /\ \E outcome \in {"ctx", "transport", "headers"} :
         IF outcome = "headers"
         THEN calls' = [calls EXCEPT ![c].pc = "read"]
         ELSE IF outcome = "transport"
         THEN calls' = [calls EXCEPT ![c].pc = "send"]
         ELSE calls' = [Fail(c, NewNMIError(ErrNetworkError, Lit("network error: "), << >>))
                          EXCEPT ![c].ctxDone = TRUE]
    /\ UNCHANGED << now, processed, tcReaders, tcWriter, gateway, vin, vout, otherVars >>

\* sendRequest: client.Do returns: with an error because the context was
\* cancelled or the 30 second timeout of the client expired while the request
\* was in flight ("ctx"), with an error of the transport ("transport"), or
\* with the response headers ("headers")
DoReturn(c) ==
    /\ calls[c].pc = "do"
    /\ \E outcome \in {"ctx", "transport", "headers"} :
         IF outcome = "headers"
         THEN calls' = [calls EXCEPT ![c].pc = "read"]
         ELSE calls' = [Fail(c, NewNMIError(ErrNetworkError, Lit("network error: "), << >>))
                          EXCEPT ![c].ctxDone = (outcome = "ctx")]
    /\ UNCHANGED << now, processed, tcReaders, tcWriter, gateway, vin, vout, otherVars >>

\* the PaymentResponse of ProcessPayment
PaymentReturn(req, resp, parsed) ==
    [isNil |-> FALSE, RawResponse |-> resp, Response |-> parsed.Response,
     ResponseText |-> parsed.ResponseText, TransactionID |-> parsed.TransactionID,
     CustomerVaultID |-> req.CustomerVaultID, Masked |-> << >>, CardType |-> << >>,
     Success |-> FALSE]

\* the TokenizeResponse of ProcessTokenization
TokenizeReturn(vaultID, resp, parsed) ==
    [isNil |-> FALSE, RawResponse |-> << >>, Response |-> << >>,
     ResponseText |-> parsed.ResponseText, TransactionID |-> << >>,
     CustomerVaultID |-> vaultID,
     Masked |-> ExtractValue(resp, << "c", "c", "_", "n", "u", "m", "b", "e", "r" >>),
     CardType |-> ExtractValue(resp, << "c", "a", "r", "d", "_", "t", "y", "p", "e" >>),
     Success |-> (parsed.Response = << "1" >>)]

\* a ProcessPayment that records the key without testing that it is non-empty
ParsedMarksAlways(c, resp) ==
    LET p == ParseNMIResponse(resp)
    IN IF p.err # Nil
       THEN Fail(c, p.err)
       ELSE IF calls[c].op = "ProcessTokenization"
       THEN [calls EXCEPT ![c].pc = "done",
               ![c].ret = TokenizeReturn(calls[c].vault, resp, p.response)]
       ELSE [calls EXCEPT ![c].pc = "mark",
               ![c].ret = PaymentReturn(calls[c].req, resp, p.response)]

\* what the operation does with the body resp that sendRequest returned:
\* ParseNMIResponse(resp) and what follows it up to the next lock or return
Parsed(c, resp) ==
    LET p == ParseNMIResponse(resp)
    IN IF p.err # Nil
       THEN Fail(c, p.err)
       ELSE IF calls[c].op = "ProcessTokenization"
       THEN [calls EXCEPT ![c].pc = "done",
               ![c].ret = TokenizeReturn(calls[c].vault, resp, p.response)]
       ELSE IF calls[c].req.IdempotencyKey # ""
       THEN [calls EXCEPT ![c].pc = "mark",
               ![c].ret = PaymentReturn(calls[c].req, resp, p.response)]
       ELSE [calls EXCEPT ![c].pc = "done",
               ![c].ret = PaymentReturn(calls[c].req, resp, p.response)]

\* sendRequest: io.ReadAll(resp.Body) returns: with an error because the
\* context was cancelled or the timeout expired while the body was read
\* ("ctx"), with an error of the connection ("read"), or with the body,
\* which the operation then parses
ReadBody(c) ==
    /\ calls[c].pc = "read"
    /\ \/ \E outcome \in {"ctx", "read"} :
            calls' = [Fail(c, NewNMIError(ErrProcessingError,
                                          Lit("failed to read response"), << >>))
                        EXCEPT ![c].ctxDone = (outcome = "ctx")]
       \/ \E body \in RawResponses : calls' = Parsed(c, body)
    /\ UNCHANGED << now, processed, tcReaders, tcWriter, gateway, vin, vout, otherVars >>

\* ProcessPayment: transactionCache.Lock()
PayMarkLock(c) ==
    /\ calls[c].pc = "mark"
    /\ tcWriter = 0
    /\ tcReaders = {}
    /\ tcWriter' = c
    /\ calls' = [calls EXCEPT ![c].pc = "mark_cs"]
    /\ UNCHANGED << now, processed, tcReaders, gateway, vin, vout, otherVars >>

\* a recording that forgets the key
markProcessedForgets(key) == processed

\* a recording that replaces the registry by the one key
markProcessedReplaces(key) == {key}

\* the registry after key has been recorded
markProcessed(key) == processed \cup {key}

\* ProcessPayment: the key is recorded, Unlock(), and the response is returned
PayMark(c) ==
    /\ calls[c].pc = "mark_cs"
    /\ processed' = markProcessed(calls[c].req.IdempotencyKey)
    /\ tcWriter' = 0
    /\ calls' = [calls EXCEPT ![c].pc = "done", ![c].wrote = TRUE]
    /\ UNCHANGED << now, tcReaders, gateway, vin, vout, otherVars >>

Next ==
    \/ \E c \in Calls : Start(c)
    \/ \E c \in Calls : PayGuardEnter(c)
    \/ \E c \in Calls : PayGuardCheck(c)
    \/ \E c \in Calls : SendDispatch(c)
    \/ \E c \in Calls : DoReturn(c)
    \/ \E c \in Calls : ReadBody(c)
    \/ \E c \in Calls : PayMarkLock(c)
    \/ \E c \in Calls : PayMark(c)

Spec == Init /\ [][Next]_vars

(***************************************************************************)
(* The validator on its own: ValidatePaymentRequest applied to one request *)
(* drawn from a bounded set, at a time drawn from the modelled months.     *)
(***************************************************************************)
\* all strings over alphabet of length at most n
Strings(alphabet, n) == UNION {[1..k -> alphabet] : k \in 0..n}

AmountChars == {"0", "1", ".", "-"}

AmountStrings == Strings(AmountChars, MaxAmountLen)

TypeStrings == {<< >>, << "s", "a", "l", "e" >>, << "S", "A", "L", "E" >>, << "A", "u", "t", "h" >>, << "r", "e", "f", "u", "n", "d" >>, << "b", "o", "g", "u", "s" >>}

CardStrings == {<< >>, TestCard, << "4", "1", "1", "1", "1", "1", "1", "1", "1", "1", "1", "1", "1", "1", "1", "2" >>, << "4", "1", "1", "1", "-", "1", "1", "1", "1", " ", "1", "1", "1", "1", "-", "1", "1", "1", "1" >>, << "4", "1", "1", "1", "1", "1", "1", "1", "1", "1", "1", "1" >>,
                << "4", "1", "1", "1", "1", "1", "1", "1", "1", "1", "1", "1", "1", "1", "1", "1", "1", "1", "1", "1", "1", "1" >>, << "4", "1", "1", "1", "1", "1", "1", "1", "x", "1", "1", "1", "1", "1", "1", "1" >>,
                << "3", "7", "8", "2", "8", "2", "2", "4", "6", "3", "1", "0", "0", "0", "5" >>,
                << "4", "2", "2", "2", "2", "2", "2", "2", "2", "2", "2", "2", "2" >>,
                << "4", "2", "2", "2", "2", "2", "2", "2", "2", "2", "2", "2", "3" >>,
                << "4", "1", "1", "1", "1", "1", "1", "1", "1", "1", "1", "1", "1", "1", "1", "1", "1", "1", "0" >>}

ExpStrings == {<< >>, << "1", "2", "3", "0" >>, << "1", "1", "2", "6" >>, << "1", "2", "2", "6" >>, << "1", "0", "2", "6" >>, << "0", "1", "2", "7" >>, << "1", "3", "3", "0" >>, << "0", "0", "3", "0" >>, << "1", "2", "3" >>}

CVVStrings == {<< >>, << "1", "2", "3" >>, << "1", "2", "3", "4" >>, << "1", "2" >>, << "1", "2", "3", "4", "5" >>, << "1", "2", "a" >>}

VaultStrings == {<< "1", "2", "3", "4", "5", "6", "7" >>, << "1", "2", "3", "4", "5", "6", "7", "8" >>}

GoodBilling == [present |-> TRUE, FirstName |-> "Ann", LastName |-> "Lee",
                Address1 |-> "1 Main St", City |-> "Springfield", State |-> "IL",
                Zip |-> "62701", Email |-> << >>, Phone |-> << >>]

BillingValues ==
    {GoodBilling,
     [GoodBilling EXCEPT !.FirstName = ""],
     [GoodBilling EXCEPT !.Zip = ""],
     [GoodBilling EXCEPT !.Email = << "a", "@", "b", ".", "c", "o" >>],
     [GoodBilling EXCEPT !.Email = << "a", "@", "b", ".", "c" >>],
     [GoodBilling EXCEPT !.Email = << "a", "b", ".", "c", "o" >>],
     [GoodBilling EXCEPT !.Phone = << "(", "5", "5", "5", ")", " ", "1", "2", "3", "-", "4", "5", "6", "7" >>],
     [GoodBilling EXCEPT !.Phone = << "5", "5", "5", "-", "1", "2", "3", "4" >>]}

\* the requests given to the validator: the valid sale with one group of
\* fields varied at a time
ValidatorRequests ==
    {[ReqCard("") EXCEPT !.Amount = a] : a \in AmountStrings}
      \cup {[ReqCard("") EXCEPT !.Type = t] : t \in TypeStrings}
      \cup {[ReqCard("") EXCEPT !.CreditCard = n, !.ExpDate = e, !.CVV = v] :
               n \in CardStrings, e \in ExpStrings, v \in CVVStrings}
      \cup {[ReqCard("") EXCEPT !.CustomerVaultID = id, !.CreditCard = n] :
               id \in VaultStrings, n \in {<< >>, TestCard, << "4", "1", "1", "1", "1", "1", "1", "1", "1", "1", "1", "1", "1", "1", "1", "2" >>}}
      \cup {[ReqCard("") EXCEPT !.Billing = b] : b \in BillingValues}
      \cup {ReqTokenize}

\* the months time.Now() may fall in
RECURSIVE MonthsFrom(_, _)
MonthsFrom(t, n) == IF n = 0 THEN {t} ELSE {t} \cup MonthsFrom(NextMonth(t), n - 1)

Nows == MonthsFrom(StartTime, MaxMonths)

InitValidator ==
    /\ InitOrchestrator
    /\ now \in Nows
    /\ vin \in ValidatorRequests
    /\ vout = NotValidated
    /\ InitOther

\* ValidatePaymentRequest(vin) is called
RunValidator ==
    /\ vout = NotValidated
    /\ vout' = ValidatePaymentRequest(vin, now)
    /\ UNCHANGED << now, processed, tcReaders, tcWriter, gateway, calls, vin, otherVars >>

NextValidator == RunValidator

SpecValidator == InitValidator /\ [][NextValidator]_vars

(***************************************************************************)
(* validateExpirationDate on its own, applied to every string over a few   *)
(* characters at a time drawn from the modelled months.                    *)
(***************************************************************************)
ExpiryChars == {"0", "1", "2", "3", "6", "7", "x"}

ExpiryStrings == Strings(ExpiryChars, MaxExpLen)

InitExpiry ==
    /\ InitOrchestrator
    /\ now \in Nows
    /\ vin \in {[ReqCard("") EXCEPT !.ExpDate = e] : e \in ExpiryStrings}
    /\ vout = NotValidated
    /\ InitOther

\* validateExpirationDate(vin.ExpDate) is called
RunExpiry ==
    /\ vout = NotValidated
    /\ vout' = validateExpirationDate(vin.ExpDate, now)
    /\ UNCHANGED << now, processed, tcReaders, tcWriter, gateway, calls, vin, otherVars >>

NextExpiry == RunExpiry

SpecExpiry == InitExpiry /\ [][NextExpiry]_vars

(***************************************************************************)
(* The parser on its own: ParseNMIResponse and ExtractValue applied to a   *)
(* raw response made of a few key=value segments.                          *)
(***************************************************************************)
\* segments a raw response is made of: fields of the gateway, a key in
\* another case, repeated keys with different values, escapes, a malformed
\* escape, a semicolon and the empty segment
Segments ==
    { << "r", "e", "s", "p", "o", "n", "s", "e", "=", "1" >>,
      << "r", "e", "s", "p", "o", "n", "s", "e", "=", "2" >>,
      << "R", "e", "s", "p", "o", "n", "s", "e", "=", "1" >>,
      << "r", "e", "s", "p", "o", "n", "s", "e", "t", "e", "x", "t", "=", "O", "K" >>,
      << "r", "e", "s", "p", "o", "n", "s", "e", "t", "e", "x", "t", "=", "N", "O" >>,
      << "r", "e", "s", "p", "o", "n", "s", "e", "_", "c", "o", "d", "e", "=", "3", "0", "0" >>,
      << "r", "e", "s", "p", "o", "n", "s", "e", "_", "c", "o", "d", "e", "=", "6", "0", "1" >>,
      << "a", "m", "o", "u", "n", "t", "=", "5", ".", "0", "0" >>,
      << "a", "m", "o", "u", "n", "t", "=", "7", ".", "0", "0" >>,
      << "r", "e", "s", "p", "o", "n", "s", "e", "t", "e", "x", "t", "=", "%", "z", "z" >>,
      << "r", "e", "s", "p", "o", "n", "s", "e", "t", "e", "x", "t", "=", "a", "+", "b", "%", "2", "0", "c" >>,
      << "a", ";", "b" >>,
      << >> }

\* the segments joined by "&"
RECURSIVE JoinSegments(_)
JoinSegments(segs) ==
    IF Len(segs) = 0 THEN << >>
    ELSE IF Len(segs) = 1 THEN segs[1]
    ELSE segs[1] \o << "&" >> \o JoinSegments(Tail(segs))

\* values of the response_code field: the codes of the table, an unknown code
\* and the empty value
ResponseCodes ==
    { << "2", "0", "0" >>, << "2", "0", "1" >>, << "3", "0", "0" >>, << "4", "0", "0" >>, << "5", "0", "0" >>, << "6", "0", "0" >>, << "6", "0", "1" >>, << "7", "0", "0" >>, << "9", "9", "9" >>, << >> }

\* a decline with each response code, a decline without response code, a
\* decline whose text carries a reference id, and the bodies of the gateway
TableRaws ==
    {<< "r", "e", "s", "p", "o", "n", "s", "e", "=", "2", "&", "r", "e", "s", "p", "o", "n", "s", "e", "t", "e", "x", "t", "=", "D", "E", "C", "L", "I", "N", "E", "&", "r", "e", "s", "p", "o", "n", "s", "e", "_", "c", "o", "d", "e", "=" >> \o c : c \in ResponseCodes}
      \cup { << "r", "e", "s", "p", "o", "n", "s", "e", "=", "2", "&", "r", "e", "s", "p", "o", "n", "s", "e", "t", "e", "x", "t", "=", "D", "E", "C", "L", "I", "N", "E" >>,
             << "r", "e", "s", "p", "o", "n", "s", "e", "=", "3", "&", "r", "e", "s", "p", "o", "n", "s", "e", "t", "e", "x", "t", "=", "D", "u", "p", "l", "i", "c", "a", "t", "e", " ", "R", "E", "F", "I", "D", ":", "3", "1", "&", "r", "e", "s", "p", "o", "n", "s", "e", "_", "c", "o", "d", "e", "=", "6", "0", "1" >> }
      \cup RawResponses

ParserRaws == {JoinSegments(segs) : segs \in Strings(Segments, MaxPairs)} \cup TableRaws

K_Response  == << "R", "e", "s", "p", "o", "n", "s", "e" >>
K_cc_number == << "c", "c", "_", "n", "u", "m", "b", "e", "r" >>

\* keys ExtractValue is asked for
ParserKeys == {K_response, K_responsetext, K_response_code, K_amount, K_Response, K_cc_number}

InitParser ==
    /\ InitOrchestrator
    /\ now = StartTime
    /\ vin = ReqCard("")
    /\ vout = NotValidated
    /\ pin \in [raw : ParserRaws, key : ParserKeys]
    /\ pout = NotParsed
    /\ RefundIdle
    /\ ServiceIdle

\* ParseNMIResponse(pin.raw) and ExtractValue(pin.raw, pin.key) are called
RunParser ==
    /\ ~pout.parsed
    /\ pout' = [parsed   |-> TRUE,
                response |-> ParseNMIResponse(pin.raw).response,
                err      |-> ParseNMIResponse(pin.raw).err,
                value    |-> ExtractValue(pin.raw, pin.key)]
    /\ UNCHANGED << now, processed, tcReaders, tcWriter, gateway, calls, vin, vout, pin, refund, serviceVars >>

NextParser == RunParser

SpecParser == InitParser /\ [][NextParser]_vars

(***************************************************************************)
(* ProcessRefund: one invocation, from the lookup of the original          *)
(* transaction to the return.                                              *)
(***************************************************************************)
\* refund requests: with and without transaction id; the amount is empty
\* (the whole amount) or any string of the amount characters
RefundRequests == [TransactionID : {"", "123"}, Amount : AmountStrings]

\* bodies the gateway may answer the lookup with: amounts with two, one and
\* no decimals given, no amount, an amount that is no number, a failure and
\* an undecodable body
LookupRaws ==
    { << "r", "e", "s", "p", "o", "n", "s", "e", "=", "1", "&", "a", "m", "o", "u", "n", "t", "=", "1", ".", "0", "0" >>,
      << "r", "e", "s", "p", "o", "n", "s", "e", "=", "1", "&", "a", "m", "o", "u", "n", "t", "=", "0", ".", "1", "0" >>,
      << "r", "e", "s", "p", "o", "n", "s", "e", "=", "1", "&", "a", "m", "o", "u", "n", "t", "=", "1", ".", "1" >>,
      << "r", "e", "s", "p", "o", "n", "s", "e", "=", "1" >>,
      << "r", "e", "s", "p", "o", "n", "s", "e", "=", "1", "&", "a", "m", "o", "u", "n", "t", "=", "a", "b", "c" >>,
      RawDeclined, RawUndecodable }

\* the form LookupTransaction posts
LookupForm(req) ==
    [op |-> "LookupTransaction", transaction_id |-> req.TransactionID, amount |-> << >>]

\* the form ProcessRefund posts
RefundForm(req) ==
    [op |-> "ProcessRefund", transaction_id |-> req.TransactionID, amount |-> req.Amount]

\* ProcessRefund returns err (and a nil result)
RefundFail(err) ==
    [refund EXCEPT !.pc = "done", !.err = err, !.ret = NilRefundResponse]

\* ProcessRefund is invoked and calls LookupTransaction, which returns
\* invalid_request for an empty transaction id
RefundStart ==
    /\ refund.pc = "idle"
    /\ \E req \in RefundRequests :
         refund' = IF req.TransactionID = ""
                   THEN [refund EXCEPT !.req = req, !.pc = "done",
                           !.err = NewNMIError(ErrInvalidRequest,
                                               Lit("transaction_id is required"), << >>)]
                   ELSE [refund EXCEPT !.req = req, !.pc = "lookup_send"]
    /\ UNCHANGED << now, processed, tcReaders, tcWriter, gateway, calls, vin, vout, pin, pout, serviceVars >>

\* sendRequest of the lookup or of the refund: client.Do starts, as in
\* SendDispatch
RefundSendDispatch(phase) ==
    /\ refund.pc = phase \o "_send"
    /\ \E ctx \in {"live", "done"} :
         IF ctx = "done"
         THEN /\ refund' = [RefundFail(NewNMIError(ErrNetworkError, Lit("network error: "), << >>))
                              EXCEPT !.ctxDone = TRUE]
              /\ gateway' = gateway
         ELSE /\ refund' = [refund EXCEPT !.pc = phase \o "_do", !.sent = @ + 1]
              /\ gateway' = gateway \cup
                   {[call |-> 0, seq |-> refund.sent + 1,
                     form |-> IF phase = "lookup" THEN LookupForm(refund.req)
                              ELSE RefundForm(refund.req)]}
    /\ UNCHANGED << now, processed, tcReaders, tcWriter, calls, vin, vout, pin, pout, serviceVars >>

\* sendRequest of the lookup or of the refund: client.Do returns, as in DoReturn
RefundDoReturn(phase) ==
    /\ refund.pc = phase \o "_do"
    /\ \E outcome \in {"ctx", "transport", "headers"} :
         IF outcome = "headers"
         THEN refund' = [refund EXCEPT !.pc = phase \o "_read"]
         ELSE refund' = [RefundFail(NewNMIError(ErrNetworkError, Lit("network error: "), << >>))
                           EXCEPT !.ctxDone = (outcome = "ctx")]
    /\ UNCHANGED << now, processed, tcReaders, tcWriter, gateway, calls, vin, vout, pin, pout, serviceVars >>

\* a ProcessRefund that goes on to submit whatever ValidateRefundRequest says
LookupReturnedIgnoresValidation(resp) ==
    LET p == ParseNMIResponse(resp)
        amount == ExtractValue(resp, K_amount)
    IN IF p.err # Nil
       THEN RefundFail(p.err)
       ELSE [refund EXCEPT !.original = amount, !.lookupOk = TRUE, !.validated = TRUE,
                           !.verr = ValidateRefundRequest(refund.req, amount),
                           !.pc = "refund_send"]

\* what follows the body resp of the lookup: LookupTransaction parses it and
\* returns the LookupResponse, ProcessRefund validates the request against
\* its Amount and builds the form
LookupReturned(resp) ==
    LET p == ParseNMIResponse(resp)
        amount == ExtractValue(resp, K_amount)
        verr == ValidateRefundRequest(refund.req, amount)
    IN IF p.err # Nil
       THEN RefundFail(p.err)
       ELSE IF verr # Nil
       THEN [RefundFail(verr) EXCEPT !.original = amount, !.lookupOk = TRUE,
                                     !.validated = TRUE, !.verr = verr]
       ELSE [refund EXCEPT !.original = amount, !.lookupOk = TRUE, !.validated = TRUE,
                           !.pc = "refund_send"]

\* what follows the body resp of the refund: it is parsed and the
\* RefundResponse is returned
RefundReturned(resp) ==
    LET p == ParseNMIResponse(resp)
    IN IF p.err # Nil
       THEN RefundFail(p.err)
       ELSE [refund EXCEPT !.pc = "done",
               !.ret = [isNil |-> FALSE, RawResponse |-> resp,
                        Response |-> p.response.Response,
                        TransactionID |-> p.response.TransactionID,
                        Amount |-> refund.req.Amount]]

\* sendRequest of the lookup or of the refund: io.ReadAll returns, as in
\* ReadBody
RefundReadBody(phase) ==
    /\ refund.pc = phase \o "_read"
    /\ \/ \E outcome \in {"ctx", "read"} :
            refund' = [RefundFail(NewNMIError(ErrProcessingError,
                                              Lit("failed to read response"), << >>))
                         EXCEPT !.ctxDone = (outcome = "ctx")]
       \/ /\ phase = "lookup"
          /\ \E body \in LookupRaws : refund' = LookupReturned(body)
       \/ /\ phase = "refund"
          /\ \E body \in RawResponses : refund' = RefundReturned(body)
    /\ UNCHANGED << now, processed, tcReaders, tcWriter, gateway, calls, vin, vout, pin, pout, serviceVars >>

RefundPhases == {"lookup", "refund"}

InitRefund ==
    /\ InitOrchestrator
    /\ now = StartTime
    /\ vin = ReqCard("")
    /\ vout = NotValidated
    /\ ParserIdle
    /\ RefundIdle
    /\ ServiceIdle

NextRefund ==
    \/ RefundStart
    \/ \E phase \in RefundPhases : RefundSendDispatch(phase)
    \/ \E phase \in RefundPhases : RefundDoReturn(phase)
    \/ \E phase \in RefundPhases : RefundReadBody(phase)

SpecRefund == InitRefund /\ [][NextRefund]_vars

(***************************************************************************)
(* VoidTransaction, LookupTransaction, UpdateRecurringPayment and          *)
(* CancelRecurringPayment: one invocation.                                 *)
(***************************************************************************)
SimpleOps == {"VoidTransaction", "LookupTransaction", "UpdateRecurringPayment",
              "CancelRecurringPayment"}

\* the transaction ids and subscription ids of the requests
SimpleIds == {"", "123", "456"}

\* the Amount of the request of UpdateRecurringPayment
UpdateAmounts == {<< >>, << "5", ".", "0", "0" >>}

\* the message of the error for an empty identifier
RequiredMessage(op) ==
    IF op \in {"VoidTransaction", "LookupTransaction"}
    THEN Lit("transaction_id is required")
    ELSE Lit("subscription_id is required")

\* the form the operation posts
SimpleForm(op, id, amount) ==
    IF op = "LookupTransaction" THEN LookupForm([TransactionID |-> id])
    ELSE [op |-> op, transaction_id |-> id, amount |-> amount]

\* the operation returns err (and a nil result)
SimpleFail(err) ==
    [svc EXCEPT !.pc = "done", !.err = err, !.ret = NilSimpleReturn]

\* an operation that posts its form whatever the identifier
SimpleStartSendsAnyway ==
    /\ svc.pc = "idle"
    /\ \E op \in SimpleOps : \E id \in SimpleIds :
       \E amount \in (IF op = "UpdateRecurringPayment" THEN UpdateAmounts ELSE {<< >>}) :
         svc' = [svc EXCEPT !.op = op, !.id = id, !.amount = amount, !.pc = "send"]
    /\ UNCHANGED << now, processed, tcReaders, tcWriter, gateway, calls, vin, vout, pin, pout,
                    refund, plans, psReaders, psWriter, handlers, mw, hin, hout >>

\* the operation is invoked: it returns invalid_request for an empty
\* identifier, and builds its form otherwise
SimpleStart ==
    /\ svc.pc = "idle"
    /\ \E op \in SimpleOps : \E id \in SimpleIds :
       \E amount \in (IF op = "UpdateRecurringPayment" THEN UpdateAmounts ELSE {<< >>}) :
         svc' = IF id = ""
                THEN [svc EXCEPT !.op = op, !.id = id, !.amount = amount, !.pc = "done",
                        !.err = NewNMIError(ErrInvalidRequest, RequiredMessage(op), << >>)]
                ELSE [svc EXCEPT !.op = op, !.id = id, !.amount = amount, !.pc = "send"]
    /\ UNCHANGED << now, processed, tcReaders, tcWriter, gateway, calls, vin, vout, pin, pout,
                    refund, plans, psReaders, psWriter, handlers, mw, hin, hout >>

\* sendRequest: client.Do starts, as in SendDispatch
SimpleSendDispatch ==
    /\ svc.pc = "send"
    /\ \E ctx \in {"live", "done"} :
         IF ctx = "done"
         THEN /\ svc' = [SimpleFail(NewNMIError(ErrNetworkError, Lit("network error: "), << >>))
                           EXCEPT !.ctxDone = TRUE]
              /\ gateway' = gateway
         ELSE /\ svc' = [svc EXCEPT !.pc = "do", !.sent = @ + 1]
              /\ gateway' = gateway \cup
                   {[call |-> 0, seq |-> svc.sent + 1,
                     form |-> SimpleForm(svc.op, svc.id, svc.amount)]}
    /\ UNCHANGED << now, processed, tcReaders, tcWriter, calls, vin, vout, pin, pout,
                    refund, plans, psReaders, psWriter, handlers, mw, hin, hout >>

\* sendRequest: client.Do returns, as in DoReturn
SimpleDoReturn ==
    /\ svc.pc = "do"
    /\ \E outcome \in {"ctx", "transport", "headers"} :
         IF outcome = "headers"
         THEN svc' = [svc EXCEPT !.pc = "read"]
         ELSE svc' = [SimpleFail(NewNMIError(ErrNetworkError, Lit("network error: "), << >>))
                        EXCEPT !.ctxDone = (outcome = "ctx")]
    /\ UNCHANGED << now, processed, tcReaders, tcWriter, gateway, calls, vin, vout, pin, pout,
                    refund, plans, psReaders, psWriter, handlers, mw, hin, hout >>

\* what follows the body resp: it is parsed and the result is returned.
\* CancelRecurringPayment returns no result, a nil error on success
SimpleReturned(resp) ==
    LET p == ParseNMIResponse(resp)
    IN IF p.err # Nil
       THEN SimpleFail(p.err)
       ELSE IF svc.op = "CancelRecurringPayment"
       THEN [svc EXCEPT !.pc = "done"]
       ELSE [svc EXCEPT !.pc = "done",
               !.ret = [isNil |-> FALSE,
                        Response |-> p.response.Response,
                        TransactionID |-> IF svc.op = "UpdateRecurringPayment"
                                          THEN << >> ELSE p.response.TransactionID,
                        Amount |-> IF svc.op = "LookupTransaction"
                                   THEN ExtractValue(resp, K_amount)
                                   ELSE svc.amount]]

\* sendRequest: io.ReadAll returns, as in ReadBody
SimpleReadBody ==
    /\ svc.pc = "read"
    /\ \/ \E outcome \in {"ctx", "read"} :
            svc' = [SimpleFail(NewNMIError(ErrProcessingError,
                                           Lit("failed to read response"), << >>))
                      EXCEPT !.ctxDone = (outcome = "ctx")]
       \/ \E body \in (IF svc.op = "LookupTransaction" THEN LookupRaws ELSE RawResponses) :
            svc' = SimpleReturned(body)
    /\ UNCHANGED << now, processed, tcReaders, tcWriter, gateway, calls, vin, vout, pin, pout,
                    refund, plans, psReaders, psWriter, handlers, mw, hin, hout >>

NextSimple ==
    \/ SimpleStart
    \/ SimpleSendDispatch
    \/ SimpleDoReturn
    \/ SimpleReadBody

SpecSimple == Init /\ [][NextSimple]_vars

(***************************************************************************)
(* The plan store: HandleAddPlan, HandleUpdatePlan, HandleCancelPlan,      *)
(* HandleListPlans and ProcessRecurringPayment, run concurrently.          *)
(***************************************************************************)
PlanOps == {"HandleAddPlan", "HandleUpdatePlan", "HandleCancelPlan", "HandleListPlans",
            "ProcessRecurringPayment"}

PlanAmount == << "9", ".", "9", "9" >>

\* the plans of the requests of HandleAddPlan: two plans with the same id
\* and one without id
AddPlans == {Plan("p1", "a", PlanAmount), Plan("p1", "b", PlanAmount),
             Plan("", "a", PlanAmount)}

\* the plans of the requests of HandleUpdatePlan: a new name, no new amount
UpdatePlans == {Plan("p1", "c", << >>)}

\* the argument of each handler
PlanArgs(op) ==
    IF op = "HandleAddPlan" THEN AddPlans
    ELSE IF op = "HandleUpdatePlan" THEN UpdatePlans
    ELSE IF op = "HandleListPlans" THEN {NoPlan}
    ELSE {Plan(id, "", << >>) : id \in PlanIds}

\* PlanStore.Data[id] and whether the key is present
StoredPlan(id) == IF id \in PlanIds THEN plans[id] ELSE NoPlan

PlanExists(id) == StoredPlan(id) # NoPlan

\* the variables no plan-store handler writes
plansEnv == << now, processed, tcReaders, tcWriter, calls, vin, vout, pin, pout, refund,
               svc, mw, hin, hout >>

\* the form ProcessRecurringPayment posts
RecurringForm(plan) ==
    [op |-> "ProcessRecurringPayment", transaction_id |-> plan.ID, amount |-> << >>]

\* a request reaches a handler, or ProcessRecurringPayment is invoked;
\* HandleAddPlan answers 400 to a plan without id, name or amount
PlanStart(h) ==
    /\ handlers[h].pc = "idle"
    /\ \A g \in 1..(h - 1) : handlers[g].pc # "idle"
    /\ \E op \in PlanOps : \E plan \in PlanArgs(op) :
         handlers' = [handlers EXCEPT ![h] =
            IF op = "HandleAddPlan" /\ (plan.ID = "" \/ plan.Name = "" \/ plan.Amount = << >>)
            THEN [IdleHandler EXCEPT !.op = op, !.plan = plan, !.pc = "done", !.status = 400]
            ELSE [IdleHandler EXCEPT !.op = op, !.plan = plan, !.pc = "lock"]]
    /\ UNCHANGED << plans, psReaders, psWriter, gateway, plansEnv >>

\* PlanStore.RLock(): HandleAddPlan (for its check), HandleListPlans and
\* ProcessRecurringPayment
PlanRLock(h) ==
    /\ handlers[h].pc = "lock"
    /\ handlers[h].op \in {"HandleAddPlan", "HandleListPlans", "ProcessRecurringPayment"}
    /\ psWriter = 0
    /\ psReaders' = psReaders \cup {h}
    /\ handlers' = [handlers EXCEPT ![h].pc = "read_cs"]
    /\ UNCHANGED << plans, psWriter, gateway, plansEnv >>

\* a handler that writes the store without taking PlanStore.Lock()
PlanLockSkipped(h) ==
    /\ \/ handlers[h].pc = "lock" /\ handlers[h].op \in {"HandleUpdatePlan", "HandleCancelPlan"}
       \/ handlers[h].pc = "add_lock"
    /\ handlers' = [handlers EXCEPT ![h].pc = "write_cs"]
    /\ UNCHANGED << plans, psReaders, psWriter, gateway, plansEnv >>

\* PlanStore.Lock(): HandleUpdatePlan, HandleCancelPlan, and HandleAddPlan
\* after its check
PlanLock(h) ==
    /\ \/ handlers[h].pc = "lock" /\ handlers[h].op \in {"HandleUpdatePlan", "HandleCancelPlan"}
       \/ handlers[h].pc = "add_lock"
    /\ psWriter = 0
    /\ psReaders = {}
    /\ psWriter' = h
    /\ handlers' = [handlers EXCEPT ![h].pc = "write_cs"]
    /\ UNCHANGED << plans, psReaders, gateway, plansEnv >>

\* HandleAddPlan: the lookup of the id under the read lock, RUnlock(), and
\* the answer 409 when the id is present
AddCheck(h) ==
    /\ handlers[h].pc = "read_cs"
    /\ handlers[h].op = "HandleAddPlan"
    /\ psReaders' = psReaders \ {h}
    /\ handlers' = [handlers EXCEPT ![h] =
          IF PlanExists(handlers[h].plan.ID)
          THEN [@ EXCEPT !.exists = TRUE, !.pc = "done", !.status = 409]
          ELSE [@ EXCEPT !.pc = "add_lock"]]
    /\ UNCHANGED << plans, psWriter, gateway, plansEnv >>

\* HandleAddPlan: the plan is stored under the write lock, the answer is
\* written and the deferred Unlock() runs
AddWrite(h) ==
    /\ handlers[h].pc = "write_cs"
    /\ handlers[h].op = "HandleAddPlan"
    /\ plans' = [plans EXCEPT ![handlers[h].plan.ID] = handlers[h].plan]
    /\ psWriter' = 0
    /\ handlers' = [handlers EXCEPT ![h].pc = "done", ![h].status = 200]
    /\ UNCHANGED << psReaders, gateway, plansEnv >>

\* the plan HandleUpdatePlan stores: the fields of the request that are not
\* empty replace those of the existing plan
UpdatedPlan(existingPlan, plan) ==
    Plan(existingPlan.ID,
         IF plan.Name # "" THEN plan.Name ELSE existingPlan.Name,
         IF plan.Amount # << >> THEN plan.Amount ELSE existingPlan.Amount)

\* HandleUpdatePlan under the write lock: 404 when the id is absent,
\* otherwise the update; the deferred Unlock() runs
UpdateApply(h) ==
    /\ handlers[h].pc = "write_cs"
    /\ handlers[h].op = "HandleUpdatePlan"
    /\ psWriter' = 0
    /\ IF PlanExists(handlers[h].plan.ID)
       THEN /\ plans' = [plans EXCEPT ![handlers[h].plan.ID] =
                           UpdatedPlan(StoredPlan(handlers[h].plan.ID), handlers[h].plan)]
            /\ handlers' = [handlers EXCEPT ![h].exists = TRUE, ![h].pc = "done",
                                            ![h].status = 200]
       ELSE /\ plans' = plans
            /\ handlers' = [handlers EXCEPT ![h].pc = "done", ![h].status = 404]
    /\ UNCHANGED << psReaders, gateway, plansEnv >>

\* HandleCancelPlan under the write lock: 404 when the id is absent,
\* otherwise the delete; the deferred Unlock() runs
CancelApply(h) ==
    /\ handlers[h].pc = "write_cs"
    /\ handlers[h].op = "HandleCancelPlan"
    /\ psWriter' = 0
    /\ IF PlanExists(handlers[h].plan.ID)
       THEN /\ plans' = [plans EXCEPT ![handlers[h].plan.ID] = NoPlan]
            /\ handlers' = [handlers EXCEPT ![h].exists = TRUE, ![h].pc = "done",
                                            ![h].status = 200]
       ELSE /\ plans' = plans
            /\ handlers' = [handlers EXCEPT ![h].pc = "done", ![h].status = 404]
    /\ UNCHANGED << psReaders, gateway, plansEnv >>

\* HandleListPlans: the store is encoded under the read lock; the deferred
\* RUnlock() runs
ListEncode(h) ==
    /\ handlers[h].pc = "read_cs"
    /\ handlers[h].op = "HandleListPlans"
    /\ psReaders' = psReaders \ {h}
    /\ handlers' = [handlers EXCEPT ![h].pc = "done", ![h].status = 200]
    /\ UNCHANGED << plans, psWriter, gateway, plansEnv >>

\* ProcessRecurringPayment returns err (and a nil result)
RecurringFail(h, err) ==
    [handlers EXCEPT ![h].pc = "done", ![h].err = err]

\* a ProcessRecurringPayment that builds its form whether or not the plan
\* exists
RecurringCheckSendsAnyway(h) ==
    /\ handlers[h].pc = "read_cs"
    /\ handlers[h].op = "ProcessRecurringPayment"
    /\ handlers' = [handlers EXCEPT ![h].exists = PlanExists(handlers[h].plan.ID),
                                    ![h].found = StoredPlan(handlers[h].plan.ID),
                                    ![h].pc = "send"]
    /\ UNCHANGED << plans, psReaders, psWriter, gateway, plansEnv >>

\* ProcessRecurringPayment: the lookup of the plan under the read lock; for
\* an absent plan it returns invalid_request and the deferred RUnlock() runs
RecurringCheck(h) ==
    /\ handlers[h].pc = "read_cs"
    /\ handlers[h].op = "ProcessRecurringPayment"
    /\ IF PlanExists(handlers[h].plan.ID)
       THEN /\ handlers' = [handlers EXCEPT ![h].exists = TRUE,
                                            ![h].found = StoredPlan(handlers[h].plan.ID),
                                            ![h].pc = "send"]
            /\ psReaders' = psReaders
       ELSE /\ handlers' = RecurringFail(h, NewNMIError(ErrInvalidRequest,
                                                        Lit("plan_id does not exist"), << >>))
            /\ psReaders' = psReaders \ {h}
    /\ UNCHANGED << plans, psWriter, gateway, plansEnv >>

\* a ProcessRecurringPayment that releases the read lock before the gateway
\* call
RecurringSendDispatchUnlocked(h) ==
    /\ handlers[h].pc = "send"
    /\ psReaders' = psReaders \ {h}
    /\ handlers' = [handlers EXCEPT ![h].pc = "flight", ![h].sent = @ + 1]
    /\ gateway' = gateway \cup
         {[call |-> h, seq |-> handlers[h].sent + 1, form |-> RecurringForm(handlers[h].found)]}
    /\ UNCHANGED << plans, psWriter, plansEnv >>

\* ProcessRecurringPayment, sendRequest: client.Do starts, as in
\* SendDispatch; on the error the deferred RUnlock() runs
RecurringSendDispatch(h) ==
    /\ handlers[h].pc = "send"
    /\ \E ctx \in {"live", "done"} :
         IF ctx = "done"
         THEN /\ handlers' = RecurringFail(h, NewNMIError(ErrNetworkError,
                                                          Lit("network error: "), << >>))
              /\ psReaders' = psReaders \ {h}
              /\ gateway' = gateway
         ELSE /\ handlers' = [handlers EXCEPT ![h].pc = "flight", ![h].sent = @ + 1]
              /\ psReaders' = psReaders
              /\ gateway' = gateway \cup
                   {[call |-> h, seq |-> handlers[h].sent + 1,
                     form |-> RecurringForm(handlers[h].found)]}
    /\ UNCHANGED << plans, psWriter, plansEnv >>

\* ProcessRecurringPayment: sendRequest returns an error of client.Do or of
\* io.ReadAll, or the body, which is parsed; the call returns and the
\* deferred RUnlock() runs
RecurringReturn(h) ==
    /\ handlers[h].pc = "flight"
    /\ psReaders' = psReaders \ {h}
    /\ \/ handlers' = RecurringFail(h, NewNMIError(ErrNetworkError,
                                                   Lit("network error: "), << >>))
       \/ handlers' = RecurringFail(h, NewNMIError(ErrProcessingError,
                                                   Lit("failed to read response"), << >>))
       \/ \E body \in RawResponses :
            LET p == ParseNMIResponse(body)
            IN handlers' = IF p.err # Nil THEN RecurringFail(h, p.err)
                           ELSE [handlers EXCEPT ![h].pc = "done", ![h].retNil = FALSE]
    /\ UNCHANGED << plans, psWriter, gateway, plansEnv >>

\* the store holds no plan, or one added earlier
InitPlans ==
    /\ InitOrchestrator
    /\ now = StartTime
    /\ vin = ReqCard("")
    /\ vout = NotValidated
    /\ ParserIdle
    /\ RefundIdle
    /\ svc = IdleSimple
    /\ plans \in [PlanIds -> {NoPlan} \cup {Plan(id, "a", PlanAmount) : id \in PlanIds}]
    /\ \A id \in PlanIds : plans[id] # NoPlan => plans[id].ID = id
    /\ psReaders = {}
    /\ psWriter = 0
    /\ handlers = [h \in Handlers |-> IdleHandler]
    /\ mw = [r \in Requests |-> IdleTimeout]
    /\ hin = NoHandlerInput
    /\ hout = 0

NextPlans ==
    \E h \in Handlers :
        \/ PlanStart(h)
        \/ PlanRLock(h)
        \/ PlanLock(h)
        \/ AddCheck(h)
        \/ AddWrite(h)
        \/ UpdateApply(h)
        \/ CancelApply(h)
        \/ ListEncode(h)
        \/ RecurringCheck(h)
        \/ RecurringSendDispatch(h)
        \/ RecurringReturn(h)

SpecPlans == InitPlans /\ [][NextPlans]_vars

(***************************************************************************)
(* The service surface (main.go): the handler of each route decodes the    *)
(* request, calls the operation and answers.                               *)
(***************************************************************************)
ServiceHandlers == {"handleTokenize", "handleSale", "handleRefund", "handleVoid",
                    "handleLookup", "handleCreateRecurring", "handleUpdateRecurring",
                    "handleCancelRecurring"}

\* what an operation may return to its handler: nil, an *NMIError of each
\* code, or an error of fmt.Errorf
OperationErrors ==
    {Nil, Errorf(Lit("amount is required"))}
      \cup {NewNMIError(code, Lit("message"), << >>) : code \in ErrorCodes}

\* the inputs of a handler: decoded tells that the payload decoded and that
\* the identifier the handler itself requires was given
HandlerInputs == [handler : ServiceHandlers, decoded : BOOLEAN, err : OperationErrors]

StatusOK == 200

StatusBadRequest == 400

StatusInternalServerError == 500

\* the status the handler answers.  handleCancelRecurring decodes nothing
\* and requires nothing before it calls the operation
HandlerStatus(in) ==
    IF ~in.decoded /\ in.handler # "handleCancelRecurring" THEN StatusBadRequest
    ELSE IF in.err # Nil THEN StatusInternalServerError
    ELSE StatusOK

InitHandlers ==
    /\ InitOrchestrator
    /\ now = StartTime
    /\ vin = ReqCard("")
    /\ vout = NotValidated
    /\ ParserIdle
    /\ RefundIdle
    /\ svc = IdleSimple
    /\ plans = [id \in PlanIds |-> NoPlan]
    /\ psReaders = {}
    /\ psWriter = 0
    /\ handlers = [h \in Handlers |-> IdleHandler]
    /\ mw = [r \in Requests |-> IdleTimeout]
    /\ hin \in HandlerInputs
    /\ hout = 0

\* the handler runs and answers
RunHandler ==
    /\ hout = 0
    /\ hout' = HandlerStatus(hin)
    /\ UNCHANGED << now, processed, tcReaders, tcWriter, gateway, calls, vin, vout, pin, pout,
                    refund, svc, plans, psReaders, psWriter, handlers, mw, hin >>

NextHandlers == RunHandler

SpecHandlers == InitHandlers /\ [][NextHandlers]_vars

(***************************************************************************)
(* TimeoutMiddleware (middleware.go), one instance per request in progress.*)
(* done is an unbuffered channel: the send of the goroutine completes only *)
(* together with the receive of the select.                                *)
(***************************************************************************)
StatusGatewayTimeout == 504

\* the variables the middleware does not write
timeoutEnv == << now, processed, tcReaders, tcWriter, gateway, calls, vin, vout, pin, pout,
                 refund, svc, plans, psReaders, psWriter, handlers, hin, hout >>

\* the first WriteHeader sets the status of the response
WriteHeader(r, code) == IF mw[r].status = 0 THEN code ELSE mw[r].status

\* the middleware derives ctx, makes done, starts the goroutine and reaches
\* the select
MwEnter(r) ==
    /\ mw[r].mwPc = "idle"
    /\ mw' = [mw EXCEPT ![r].mwPc = "select", ![r].goPc = "running"]
    /\ UNCHANGED timeoutEnv

\* the timeout expires, or the context of the request is cancelled
CtxDone(r) ==
    /\ mw[r].mwPc = "select"
    /\ ~mw[r].ctxDone
    /\ mw' = [mw EXCEPT ![r].ctxDone = TRUE]
    /\ UNCHANGED timeoutEnv

\* next.ServeHTTP(w, r) returns in the goroutine, having written its answer;
\* the goroutine reaches done <- true
HandlerReturns(r) ==
    /\ mw[r].goPc = "running"
    /\ \E code \in {StatusOK, StatusInternalServerError} :
         mw' = [mw EXCEPT ![r].goPc = "sending", ![r].status = WriteHeader(r, code)]
    /\ UNCHANGED timeoutEnv

\* select, case <-done: the send and the receive meet, the goroutine ends,
\* the middleware returns and the deferred cancel() runs
MwReceivesDone(r) ==
    /\ mw[r].mwPc = "select"
    /\ mw[r].goPc = "sending"
    /\ mw' = [mw EXCEPT ![r].mwPc = "returned", ![r].goPc = "terminated",
                        ![r].ctxDone = TRUE]
    /\ UNCHANGED timeoutEnv

\* select, case <-ctx.Done(): the middleware writes 504 and returns
MwTimesOut(r) ==
    /\ mw[r].mwPc = "select"
    /\ mw[r].ctxDone
    /\ mw' = [mw EXCEPT ![r].mwPc = "returned",
                        ![r].status = WriteHeader(r, StatusGatewayTimeout)]
    /\ UNCHANGED timeoutEnv

NextTimeout ==
    \E r \in Requests :
        \/ MwEnter(r)
        \/ CtxDone(r)
        \/ HandlerReturns(r)
        \/ MwReceivesDone(r)
        \/ MwTimesOut(r)

\* the scheduler runs every goroutine that can take a step, a handler
\* returns, and a timer that is not stopped fires
FairTimeout ==
    \A r \in Requests :
        /\ WF_vars(MwEnter(r))
        /\ WF_vars(CtxDone(r))
        /\ WF_vars(HandlerReturns(r))
        /\ WF_vars(MwReceivesDone(r))
        /\ WF_vars(MwTimesOut(r))

SpecTimeout == Init /\ [][NextTimeout]_vars /\ FairTimeout

(***************************************************************************)
(* The operations of the service together.  The four groups of operations  *)
(* share no variable but the record of what the gateway was sent, which no *)
(* operation reads; the service runs the operations of one group at a time.*)
(***************************************************************************)
PaymentsIdle == calls = [c \in Calls |-> IdleCall]

SimpleIdle == svc = IdleSimple

HandlersIdle == handlers = [h \in Handlers |-> IdleHandler]

NextService ==
    \/ RefundIdle /\ SimpleIdle /\ HandlersIdle /\ Next
    \/ PaymentsIdle /\ SimpleIdle /\ HandlersIdle /\ NextRefund
    \/ PaymentsIdle /\ RefundIdle /\ HandlersIdle /\ NextSimple
    \/ PaymentsIdle /\ RefundIdle /\ SimpleIdle /\ NextPlans

SpecService == Init /\ [][NextService]_vars

(***************************************************************************)
(* Properties of the idempotency guard and of the orchestration.           *)
(***************************************************************************)
Payments == {c \in Calls : calls[c].op = "ProcessPayment"}

KeyOf(c) == calls[c].req.IdempotencyKey

Returned(c) == calls[c].pc = "done"

Duplicate(c) ==
    /\ calls[c].err.kind = "NMIError"
    /\ calls[c].err.Code = ErrDuplicateTransaction

\* C1: for every non-empty idempotency key, at most one request of the
\* ProcessPayment calls carrying that key is ever submitted to the gateway
C1_AtMostOneSubmissionPerKey ==
    \A k \in Keys \ {""} :
        Cardinality({g \in gateway : g.call \in Payments /\ KeyOf(g.call) = k}) <= 1

\* C2: when a ProcessPayment call with a non-empty key has returned success
\* and a second call with the same key starts afterwards, the second call
\* returns duplicate_transaction, whatever its other fields are
C2_SecondCallIsDuplicate ==
    \A c1 \in Payments : \A c2 \in Payments :
        ( /\ KeyOf(c1) # ""
          /\ KeyOf(c2) = KeyOf(c1)
          /\ c1 \in calls[c2].doneAtStart
          /\ calls[c1].err = Nil
          /\ Returned(c2) )
        => Duplicate(c2)

\* a successful sale with a key, then a call with the same key whose other
\* fields fail validation, answered duplicate_transaction
C2_Witness ==
    \E c1 \in Payments : \E c2 \in Payments :
        /\ KeyOf(c1) # ""
        /\ KeyOf(c2) = KeyOf(c1)
        /\ c1 \in calls[c2].doneAtStart
        /\ calls[c1].err = Nil
        /\ ~calls[c1].ret.isNil
        /\ Returned(c2)
        /\ ValidatePaymentRequest(calls[c2].req, now) # Nil
        /\ Duplicate(c2)

C4_DuplicateDoesNothing ==
    \A c \in Calls :
        calls[c].guardHit =>
            /\ Returned(c)
            /\ Duplicate(c)
            /\ calls[c].ret.isNil
            /\ calls[c].sent = 0
            /\ ~calls[c].validated
            /\ ~calls[c].wrote
            /\ \A g \in gateway : g.call # c

\* a call rejected by the guard while the registry holds its key
C4_Witness ==
    \E c \in Payments :
        /\ calls[c].guardHit
        /\ KeyOf(c) \in processed
        /\ Returned(c)

\* C5: a ProcessPayment call whose context is done (cancelled, or the timeout
\* fired) before its gateway call completes returns network_error and does
\* not mark its key
C5_AbortedCallIsNetworkError ==
    \A c \in Payments :
        (Returned(c) /\ calls[c].ctxDone) =>
            /\ calls[c].err.kind = "NMIError"
            /\ calls[c].err.Code = ErrNetworkError
            /\ ~calls[c].wrote

\* C6: a ProcessPayment call with an empty key is never rejected by the
\* guard and never adds anything to the registry
C6_EmptyKeyBypassesGuard ==
    /\ \A c \in Payments :
         KeyOf(c) = "" => /\ ~calls[c].guardHit
                          /\ ~calls[c].wrote
                          /\ calls[c].pc \notin {"guard_cs", "mark", "mark_cs"}
                          /\ c \notin tcReaders
                          /\ tcWriter # c
    /\ "" \notin processed

\* a sale without a key that succeeded while the registry holds the key of
\* another sale
C6_Witness ==
    \E c1 \in Payments : \E c2 \in Payments :
        /\ calls[c1].wrote
        /\ KeyOf(c1) \in processed
        /\ KeyOf(c2) = ""
        /\ Returned(c2)
        /\ calls[c2].err = Nil
        /\ calls[c2].sent = 1

\* C7: the registry only grows: no step removes a recorded key
C7_RegistryOnlyGrows == [][processed \subseteq processed']_vars

\* two keys have been recorded, one after the other
C7_Witness == processed = {"k1", "k2"}

\* C9: when ValidatePaymentRequest rejects the request of a ProcessPayment
\* or ProcessTokenization call, the call returns that error, has made no
\* network call and has not written the registry
C9_RejectedRequestIsNotSent ==
    \A c \in Calls :
        (calls[c].validated /\ calls[c].verr # Nil) =>
            /\ Returned(c)
            /\ calls[c].err = calls[c].verr
            /\ calls[c].ret.isNil
            /\ calls[c].sent = 0
            /\ ~calls[c].wrote
            /\ (KeyOf(c) \in processed =>
                  \E d \in Calls \ {c} : calls[d].wrote /\ KeyOf(d) = KeyOf(c))
            /\ \A g \in gateway : g.call # c

\* a rejected ProcessPayment call carrying a key and a rejected
\* ProcessTokenization call
C9_Witness ==
    /\ \E c \in Calls :
         /\ calls[c].op = "ProcessPayment"
         /\ KeyOf(c) # ""
         /\ calls[c].validated
         /\ Returned(c)
         /\ calls[c].err # Nil
         /\ calls[c].sent = 0
    /\ \E c \in Calls :
         /\ calls[c].op = "ProcessTokenization"
         /\ calls[c].validated
         /\ Returned(c)
         /\ calls[c].err # Nil
         /\ calls[c].sent = 0

(***************************************************************************)
(* Properties of the validator.                                            *)
(***************************************************************************)
Validated == vout # NotValidated

\* C8: every failure returned by ValidatePaymentRequest is an NMIError
\* carrying one of the codes of the taxonomy
C8_FailuresAreClassified ==
    (Validated /\ vout # Nil) => (vout.kind = "NMIError" /\ vout.Code \in ErrorCodes)

\* the amount is the empty string, or is not digits, a dot and two digits, or
\* is not greater than zero
BadAmount(a) ==
    \/ a = << >>
    \/ ~(\E n \in 1..Len(a) :
           /\ Len(a) = n + 3
           /\ \A i \in 1..n : a[i] \in Digits
           /\ a[n + 1] = "."
           /\ a[n + 2] \in Digits
           /\ a[n + 3] \in Digits)
    \/ \A i \in 1..Len(a) : a[i] \in {"0", "."}

\* C10: validation of a payment request whose amount is malformed or not
\* greater than zero (the empty string and "0.00" included) returns
\* invalid_amount
C10_BadAmountIsInvalidAmount ==
    (Validated /\ BadAmount(vin.Amount)) =>
        (vout.kind = "NMIError" /\ vout.Code = ErrInvalidAmount)

\* the card number with its spaces and hyphens removed
StripCard(card) == DropChars(card, {" ", "-"})

\* the Luhn total of a string of digits: the digits at the even positions
\* counted from the rightmost are doubled, and digit-summed when above 9
RECURSIVE LuhnTotal(_, _)
LuhnTotal(number, i) ==
    IF i > Len(number) THEN 0
    ELSE LET d == DigitVal(number[Len(number) + 1 - i])
             v == IF i % 2 = 1 THEN d
                  ELSE IF 2 * d > 9 THEN ((2 * d) \div 10) + ((2 * d) % 10) ELSE 2 * d
         IN v + LuhnTotal(number, i + 1)

\* the card number is a string of digits that fails the Luhn checksum
FailsLuhn(card) ==
    /\ StripCard(card) # << >>
    /\ AllDigits(StripCard(card))
    /\ LuhnTotal(StripCard(card), 1) % 10 # 0

\* the card number has 13 to 19 digits and passes the Luhn checksum
PassesLuhn(card) ==
    /\ Len(StripCard(card)) \in 13..19
    /\ AllDigits(StripCard(card))
    /\ LuhnTotal(StripCard(card), 1) % 10 = 0

\* the expiry is MMYY with month 01 to 12 and (YY, MM) is not before the
\* two-digit year and the month of t
NotExpired(exp, t) ==
    /\ Len(exp) = 4
    /\ AllDigits(exp)
    /\ DigitsValue(SubSeq(exp, 1, 2)) \in 1..12
    /\ LET yy == DigitsValue(SubSeq(exp, 3, 4))
           mm == DigitsValue(SubSeq(exp, 1, 2))
       IN \/ yy > t.year % 100
          \/ (yy = t.year % 100 /\ mm >= t.month)

\* the request has a valid amount and type and no vault id
CardPath(req) ==
    /\ ~BadAmount(req.Amount)
    /\ ToLower(req.Type) \in validTypes
    /\ req.CustomerVaultID = << >>

\* C11: for a payment request with a valid amount and type and no vault id,
\* validation returns invalid_card when the card number fails the Luhn
\* checksum, and succeeds when the number has 13 to 19 digits, passes Luhn
\* and comes with a non-expired MMYY expiry and a CVV of 3 or 4 digits
C11_LuhnDecidesCard ==
    /\ (Validated /\ CardPath(vin) /\ FailsLuhn(vin.CreditCard)) =>
          (vout.kind = "NMIError" /\ vout.Code = ErrInvalidCard)
    /\ ( /\ Validated
         /\ CardPath(vin)
         /\ ~vin.Billing.present
         /\ PassesLuhn(vin.CreditCard)
         /\ NotExpired(vin.ExpDate, now)
         /\ Len(vin.CVV) \in {3, 4}
         /\ AllDigits(vin.CVV) ) => vout = Nil

\* C12: validateExpirationDate accepts an expiry exactly when it is four
\* digits MMYY with month 01 to 12 and (YY, MM) is not strictly before the
\* current two-digit year and month, the current month included; every
\* rejected expiry yields invalid_card
C12_ExpiryAcceptedExactlyWhenNotExpired ==
    Validated =>
        /\ (vout = Nil) <=> NotExpired(vin.ExpDate, now)
        /\ vout # Nil => (vout.kind = "NMIError" /\ vout.Code = ErrInvalidCard)

\* a card expiring in the current month was accepted
C12_Witness ==
    /\ Validated
    /\ vout = Nil
    /\ Len(vin.ExpDate) = 4
    /\ DigitsValue(SubSeq(vin.ExpDate, 1, 2)) = now.month
    /\ DigitsValue(SubSeq(vin.ExpDate, 3, 4)) = now.year % 100

\* the request carries a vault id
VaultForm(req) == req.CustomerVaultID # << >>

\* the request carries raw card data: number, expiry and CVV
CardForm(req) == req.CreditCard # << >> /\ req.ExpDate # << >> /\ req.CVV # << >>

\* C13: ValidatePaymentRequest accepts a request only if exactly one
\* payment-method form is present, a vault id or raw card data, not both and
\* not neither; without a vault id the number, the expiry and the CVV are all
\* present and each is valid
C13_ExactlyOnePaymentMethod ==
    (Validated /\ vout = Nil) =>
        /\ VaultForm(vin) # CardForm(vin)
        /\ ~VaultForm(vin) =>
              /\ PassesLuhn(vin.CreditCard)
              /\ NotExpired(vin.ExpDate, now)
              /\ Len(vin.CVV) \in {3, 4}
              /\ AllDigits(vin.CVV)

(***************************************************************************)
(* Properties of the parser.                                               *)
(***************************************************************************)
\* the raw response decodes: url.ParseQuery reports no error
Decodes(raw) == ~ParseQuery(raw).err

\* the positions, among the decoded pairs of raw, of the pairs with this key
Occurrences(raw, key) ==
    {i \in 1..Len(ParseQuery(raw).pairs) : ParseQuery(raw).pairs[i][1] = key}

\* the value of a key that occurs at most once, empty when it does not occur
Field(raw, key) ==
    IF Occurrences(raw, key) = {} THEN << >>
    ELSE ParseQuery(raw).pairs[CHOOSE i \in Occurrences(raw, key) : TRUE][2]

\* the value of the last occurrence of a key, empty when it does not occur
LastValue(raw, key) ==
    IF Occurrences(raw, key) = {} THEN << >>
    ELSE ParseQuery(raw).pairs[CHOOSE i \in Occurrences(raw, key) :
                                  \A j \in Occurrences(raw, key) : j <= i][2]

\* the classification table of the response codes
TableCode(code) ==
    IF code = << "2", "0", "0" >> THEN "invalid_card"
    ELSE IF code = << "2", "0", "1" >> THEN "invalid_amount"
    ELSE IF code = << "3", "0", "0" >> THEN "authentication_failed"
    ELSE IF code = << "4", "0", "0" >> THEN "processing_error"
    ELSE IF code = << "5", "0", "0" >> THEN "system_error"
    ELSE IF code = << "6", "0", "0" >> THEN "invalid_action"
    ELSE IF code = << "6", "0", "1" >> THEN "duplicate_transaction"
    ELSE IF code = << "7", "0", "0" >> THEN "network_error"
    ELSE "processing_error"

\* C14: on a response that decodes (each of response, responsetext and
\* response_code occurring at most once), ParseNMIResponse returns no error
\* exactly when the response field is "1"; otherwise the error carries the
\* table image of response_code, the response text as message and the raw
\* text, and the typed record is returned with it
C14_ErrorExactlyWhenResponseIsNotOne ==
    ( /\ pout.parsed
      /\ Decodes(pin.raw)
      /\ \A k \in {K_response, K_responsetext, K_response_code} :
           Cardinality(Occurrences(pin.raw, k)) <= 1 )
    => /\ (pout.err = Nil) <=> (Field(pin.raw, K_response) = << "1" >>)
       /\ ~pout.response.isNil
       /\ pout.response.Response = Field(pin.raw, K_response)
       /\ pout.response.ResponseText = Field(pin.raw, K_responsetext)
       /\ pout.response.ResponseCode = Field(pin.raw, K_response_code)
       /\ pout.err # Nil =>
            /\ pout.err.kind = "NMIError"
            /\ pout.err.Code = TableCode(Field(pin.raw, K_response_code))
            /\ pout.err.Message = Text(Field(pin.raw, K_responsetext))
            /\ pout.err.Raw = pin.raw

\* a decline with response code 601, classified duplicate_transaction
C14_Witness ==
    /\ pout.parsed
    /\ pin.raw = << "r", "e", "s", "p", "o", "n", "s", "e", "=", "2", "&", "r", "e", "s", "p", "o", "n", "s", "e", "t", "e", "x", "t", "=", "D", "E", "C", "L", "I", "N", "E", "&", "r", "e", "s", "p", "o", "n", "s", "e", "_", "c", "o", "d", "e", "=", "6", "0", "1" >>
    /\ pout.err.Code = ErrDuplicateTransaction
    /\ pout.err.Message = Text(<< "D", "E", "C", "L", "I", "N", "E" >>)
    /\ pout.err.Raw = pin.raw
    /\ pout.response.ResponseText = << "D", "E", "C", "L", "I", "N", "E" >>

\* the raw text holds a "%" that is not followed by two hexadecimal digits
MalformedEscape(raw) ==
    \E i \in 1..Len(raw) :
        /\ raw[i] = "%"
        /\ ~(i + 2 <= Len(raw) /\ raw[i + 1] \in HexDigits /\ raw[i + 2] \in HexDigits)

\* C15: when the raw response has a malformed percent-encoding,
\* ParseNMIResponse returns a classified error with code processing_error
\* whose Raw field is the raw text
C15_UndecodableIsProcessingError ==
    (pout.parsed /\ MalformedEscape(pin.raw)) =>
        /\ pout.err.kind = "NMIError"
        /\ pout.err.Code = ErrProcessingError
        /\ pout.err.Raw = pin.raw

\* C16: on a response that decodes, the fields of ParseNMIResponse and the
\* value of ExtractValue are those of the last occurrence of their key, keys
\* being matched case-sensitively
C16_LastOccurrenceWins ==
    (pout.parsed /\ Decodes(pin.raw)) =>
        /\ pout.response.Response = LastValue(pin.raw, K_response)
        /\ pout.response.ResponseText = LastValue(pin.raw, K_responsetext)
        /\ pout.response.ResponseCode = LastValue(pin.raw, K_response_code)
        /\ pout.response.Amount = LastValue(pin.raw, K_amount)
        /\ pout.value = LastValue(pin.raw, pin.key)

\* the field of the typed record that holds the value of key
TypedField(response, key) ==
    IF key = K_response THEN response.Response
    ELSE IF key = K_responsetext THEN response.ResponseText
    ELSE IF key = K_response_code THEN response.ResponseCode
    ELSE response.Amount

\* C17: ExtractValue returns the empty string when the key is absent or the
\* raw text cannot be decoded, and otherwise the value the full parser
\* decodes for that key
C17_ExtractValueAgreesWithParser ==
    pout.parsed =>
        /\ ~Decodes(pin.raw) => pout.value = << >>
        /\ Occurrences(pin.raw, pin.key) = {} => pout.value = << >>
        /\ (Decodes(pin.raw) /\ pin.key \in {K_response, K_responsetext, K_response_code, K_amount})
              => pout.value = TypedField(pout.response, pin.key)

\* the amount of a lookup response, extracted and equal to the parser's
C17_Witness ==
    /\ pout.parsed
    /\ Decodes(pin.raw)
    /\ pin.key = K_amount
    /\ pout.value = << "5", ".", "0", "0" >>
    /\ pout.value = pout.response.Amount

(***************************************************************************)
(* Properties of ProcessRefund.                                            *)
(***************************************************************************)
\* the text is a decimal number: digits, with at most two decimals
IsDecimal(a) ==
    \E n \in 1..Len(a) :
        /\ \A i \in 1..n : a[i] \in Digits
        /\ \/ Len(a) = n
           \/ /\ Len(a) \in (n + 1)..(n + 3)
              /\ a[n + 1] = "."
              /\ \A i \in (n + 2)..Len(a) : a[i] \in Digits

\* the value of a decimal number, in hundredths
Hundredths(a) ==
    LET n == IF IndexChar(a, ".") = 0 THEN Len(a) ELSE IndexChar(a, ".") - 1
        d == Len(a) - n - 1
    IN 100 * DigitsValue(SubSeq(a, 1, n))
         + (IF d = 2 THEN DigitsValue(SubSeq(a, n + 2, n + 3))
            ELSE IF d = 1 THEN 10 * DigitsValue(SubSeq(a, n + 2, n + 2))
            ELSE 0)

RefundSubmitted == \E g \in gateway : g.form.op = "ProcessRefund"

LookupSubmitted == \E g \in gateway : g.form.op = "LookupTransaction"

\* C19: the refund request is submitted only after the lookup has returned
\* successfully and ValidateRefundRequest has passed against the looked-up
\* amount; when the lookup fails (an empty transaction id included) or the
\* validation fails, no refund request is submitted
C19_LookupValidateSubmit ==
    /\ RefundSubmitted =>
          /\ LookupSubmitted
          /\ refund.lookupOk
          /\ refund.validated
          /\ refund.verr = Nil
          /\ ValidateRefundRequest(refund.req, refund.original) = Nil
    /\ (refund.pc = "done" /\ ~refund.lookupOk) => (refund.err # Nil /\ ~RefundSubmitted)
    /\ (refund.pc # "idle" /\ refund.req.TransactionID = "") =>
          /\ refund.pc = "done"
          /\ refund.err.Code = ErrInvalidRequest
          /\ gateway = {}
    /\ refund.verr # Nil =>
          /\ refund.pc = "done"
          /\ refund.err = refund.verr
          /\ ~RefundSubmitted

\* a partial refund submitted after lookup and validation, and approved
C19_Witness ==
    /\ refund.pc = "done"
    /\ refund.err = Nil
    /\ refund.req.Amount # << >>
    /\ refund.lookupOk
    /\ refund.validated
    /\ RefundSubmitted
    /\ ~refund.ret.isNil

\* ---------------------------------------------------------------------
\* Properties of ProcessTokenization
\* ---------------------------------------------------------------------

\* the request carries card fields only: a number that passes Luhn, an
\* expiry that is not before t, a CVV of 3 or 4 digits, no amount, no type
CardFieldsOnly(req, t) ==
    /\ req.Amount = << >>
    /\ req.Type = << >>
    /\ req.CustomerVaultID = << >>
    /\ PassesLuhn(req.CreditCard)
    /\ NotExpired(req.ExpDate, t)
    /\ Len(req.CVV) \in 3..4
    /\ AllDigits(req.CVV)

\* C20: a ProcessTokenization call whose request carries valid card fields
\* and no amount and no type passes validation, and once it has returned it
\* has submitted its form to the gateway
C20_TokenizationValidatesCardFieldsOnly ==
    \A c \in Calls :
        (/\ calls[c].op = "ProcessTokenization"
         /\ calls[c].validated
         /\ CardFieldsOnly(calls[c].req, now)) =>
            /\ calls[c].verr = Nil
            /\ Returned(c) => calls[c].sent > 0

Tokenizing == {c \in Calls : calls[c].op = "ProcessTokenization" /\ calls[c].vault # << >>}

\* C27: every vault identifier drawn by generateUniqueVaultID consists of
\* decimal digits only, and any two of them have the same length
C27_VaultIdIsFixedWidthNumeric ==
    /\ \A c \in Tokenizing : AllDigits(calls[c].vault)
    /\ \A c, d \in Tokenizing : Len(calls[c].vault) = Len(calls[d].vault)

\* ---------------------------------------------------------------------
\* Properties of the operations that take an identifier
\* ---------------------------------------------------------------------

\* C22: VoidTransaction and LookupTransaction called with an empty
\* transaction id return invalid_request and a nil result, and the gateway
\* is sent nothing
C22_EmptyTransactionIdIsRejected ==
    (/\ svc.op \in {"VoidTransaction", "LookupTransaction"}
     /\ svc.id = "") =>
        /\ svc.pc = "done"
        /\ svc.err.kind = "NMIError"
        /\ svc.err.Code = ErrInvalidRequest
        /\ svc.ret.isNil
        /\ svc.sent = 0
        /\ gateway = {}

\* a VoidTransaction with an empty transaction id has returned
C22_Witness ==
    /\ svc.op = "VoidTransaction"
    /\ svc.id = ""
    /\ svc.pc = "done"
    /\ svc.err.Code = ErrInvalidRequest

\* ---------------------------------------------------------------------
\* Properties of the plan store
\* ---------------------------------------------------------------------

\* the invocations of ProcessRecurringPayment
Recurring == {h \in Handlers : handlers[h].op = "ProcessRecurringPayment"}

\* the requests the gateway was sent by handler h
SentBy(h) == {g \in gateway : g.call = h}

\* C23: a ProcessRecurringPayment submits its request only in a step in which
\* the plan id of the request is in the plan store; when its check finds the
\* id absent it returns invalid_request, having sent nothing
C23_RecurringNeedsStoredPlan ==
    [][\A h \in Recurring :
          /\ handlers'[h].sent > handlers[h].sent =>
                /\ PlanExists(handlers[h].plan.ID)
                /\ handlers[h].sent = 0
          /\ (/\ handlers[h].pc = "read_cs"
              /\ handlers'[h] # handlers[h]
              /\ ~PlanExists(handlers[h].plan.ID)) =>
                /\ handlers'[h].pc = "done"
                /\ handlers'[h].err.kind = "NMIError"
                /\ handlers'[h].err.Code = ErrInvalidRequest
                /\ handlers'[h].retNil
                /\ handlers'[h].sent = 0
                /\ SentBy(h) = {}
                /\ gateway' = gateway]_vars

\* a plan was stored, a HandleCancelPlan removed it, and a
\* ProcessRecurringPayment for it then returned invalid_request
C23_Witness ==
    \E h \in Recurring : \E g \in Handlers :
        /\ handlers[g].op = "HandleCancelPlan"
        /\ handlers[g].status = 200
        /\ handlers[g].plan.ID = handlers[h].plan.ID
        /\ handlers[h].pc = "done"
        /\ handlers[h].err.Code = ErrInvalidRequest
        /\ handlers[h].sent = 0

\* C28: a HandleAddPlan answers success only in a step in which the id of its
\* plan is absent from the store, so that an add never overwrites a stored
\* plan
C28_AddNeverOverwrites ==
    [][\A h \in Handlers :
          (/\ handlers[h].op = "HandleAddPlan"
           /\ handlers[h].status = 0
           /\ handlers'[h].status = 200) =>
              ~PlanExists(handlers[h].plan.ID)]_vars

\* C29: from its plan-existence check until it returns, a
\* ProcessRecurringPayment holds the read lock of the plan store, no writer
\* holds the lock, the plan it found is the one in the store, and no step
\* changes the store
C29_RecurringHoldsReadLock ==
    [][\A h \in Recurring :
          handlers[h].pc \in {"send", "flight"} =>
              /\ h \in psReaders
              /\ psWriter = 0
              /\ handlers[h].found # NoPlan
              /\ StoredPlan(handlers[h].plan.ID) = handlers[h].found
              /\ plans' = plans]_vars

\* a HandleCancelPlan waits for the lock while the gateway call of a
\* ProcessRecurringPayment for the same plan is in flight
C29_Witness ==
    \E h \in Recurring : \E g \in Handlers :
        /\ handlers[h].pc = "flight"
        /\ handlers[g].op = "HandleCancelPlan"
        /\ handlers[g].pc = "lock"
        /\ handlers[g].plan.ID = handlers[h].plan.ID

\* ---------------------------------------------------------------------
\* Properties of the service as a whole
\* ---------------------------------------------------------------------

\* the requests the gateway was sent with the number n of an invocation
SentAs(n) == {g \in gateway : g.call = n}

\* C24: after every step an invocation of ProcessPayment, ProcessTokenization,
\* VoidTransaction, LookupTransaction, UpdateRecurringPayment,
\* CancelRecurringPayment or ProcessRecurringPayment has submitted at most
\* one request and ProcessRefund at most two, a lookup and then a refund;
\* and an invocation that has got an error submits nothing in the step
C24_NoInternalRetry ==
    [][/\ \A c \in Calls :
            /\ calls'[c].sent <= 1
            /\ handlers'[c].sent <= 1
            /\ Cardinality(SentAs(c)') <= 1
            /\ calls[c].err # Nil => calls'[c].sent = calls[c].sent
            /\ handlers[c].err # Nil => handlers'[c].sent = handlers[c].sent
            /\ (calls[c].err # Nil \/ handlers[c].err # Nil) => SentAs(c)' = SentAs(c)
       /\ svc'.sent <= 1
       /\ refund'.sent <= 2
       /\ Cardinality(SentAs(0)') <= svc'.sent + refund'.sent
       /\ \A g \in SentAs(0)' :
             (g.form.op = "ProcessRefund") =>
                 /\ g.seq = 2
                 /\ \E l \in SentAs(0)' : l.seq = 1 /\ l.form.op = "LookupTransaction"
       /\ (svc.err # Nil \/ refund.err # Nil) =>
             /\ svc'.sent = svc.sent
             /\ refund'.sent = refund.sent
             /\ SentAs(0)' = SentAs(0)]_vars

\* a ProcessRefund has returned an error after its second request: the
\* lookup and the refund were submitted, and nothing after the error
C24_Witness ==
    /\ refund.pc = "done"
    /\ refund.err # Nil
    /\ refund.sent = 2
    /\ Cardinality(SentAs(0)) = 2

\* the positions at which an invocation reads or writes a store
ReadsRegistry(c) == calls[c].pc = "guard_cs"

WritesRegistry(c) == calls[c].pc = "mark_cs"

ReadsPlans(h) == handlers[h].pc \in {"read_cs", "send", "flight"}

WritesPlans(h) == handlers[h].pc = "write_cs"

\* every invocation at a position where it reads a store holds the read
\* lock of that store, every invocation at a position where it writes holds
\* its write lock, and while the write lock is held no other invocation
\* holds either lock
LockDiscipline ==
    /\ \A c \in Calls : ReadsRegistry(c) => c \in tcReaders
    /\ \A c \in Calls : WritesRegistry(c) => tcWriter = c
    /\ tcWriter # 0 => tcReaders = {}
    /\ \A h \in Handlers : ReadsPlans(h) => h \in psReaders
    /\ \A h \in Handlers : WritesPlans(h) => psWriter = h
    /\ psWriter # 0 => psReaders = {}

\* C26: the lock discipline holds after every step, and a step that changes
\* the idempotency registry or the plan store is taken by the holder of the
\* write lock of that store
C26_StoresAreAccessedUnderLock ==
    [][/\ LockDiscipline'
       /\ processed' # processed => \E c \in Calls : WritesRegistry(c) /\ tcWriter = c
       /\ plans' # plans => \E h \in Handlers : WritesPlans(h) /\ psWriter = h]_vars

\* two handlers read the plan store at once
C26_Witness ==
    /\ Cardinality(psReaders) >= 2
    /\ \A h \in psReaders : ReadsPlans(h)

\* ---------------------------------------------------------------------
\* Properties of the service surface
\* ---------------------------------------------------------------------

ValidationOrBusinessCodes ==
    {ErrInvalidCard, ErrInvalidAmount, ErrInvalidRequest, ErrInvalidRefund,
     ErrDuplicateTransaction}

NetworkOrSystemCodes == {ErrNetworkError, ErrSystemError}

\* the handler called its operation and has answered
Answered ==
    /\ hout # 0
    /\ (hin.decoded \/ hin.handler = "handleCancelRecurring")

\* C25: when the operation returned an error with a validation or business
\* code the handler answers a 4xx status, and when it returned one with a
\* network or system code the handler answers a 5xx status
C25_StatusClassFollowsErrorKind ==
    (Answered /\ hin.err.kind = "NMIError") =>
        /\ hin.err.Code \in ValidationOrBusinessCodes => hout \in 400..499
        /\ hin.err.Code \in NetworkOrSystemCodes => hout \in 500..599

\* ---------------------------------------------------------------------
\* Properties of TimeoutMiddleware
\* ---------------------------------------------------------------------

\* C30: for every request, once the wrapped handler has returned and the
\* goroutine is at its send on done, the goroutine eventually terminates
C30_GoroutineTerminates ==
    \A r \in Requests : (mw[r].goPc = "sending") ~> (mw[r].goPc = "terminated")

====
